---- MODULE Spec2Model ----
(***************************************************************************)
(* Control path of the virtio-snd device (hw/virtio/virtio-snd.c, the      *)
(* revision with the PCM handlers): the command queue and its drain pass,  *)
(* the request dispatch, and the PCM parameter / stream tables.            *)
(*                                                                         *)
(* A request is the guest's out buffer, kept as the words the handlers     *)
(* read from it (byte offsets 0, 4, 8, 12, 16 and the bytes 20, 21, 22)    *)
(* together with its length out_len; in_len is the size of the reply       *)
(* buffer.  Every handler is an operator from the device state to the set  *)
(* of outcomes the build can produce: one outcome where the C code is      *)
(* defined, several where it is undefined (a shift by 64 or more, an       *)
(* access outside the stream tables, a wild or null dereference).          *)
(***************************************************************************)
EXTENDS Integers, Sequences, FiniteSets, TLC

\* ------------------------------------------------------------ bounds
\* Largest stream count the device is realized with in the model.
MaxStreams == 2
\* Requests the guest submits in one behaviour.
MaxReqs == 3
\* Requests popped by one control-queue notification.
MaxBatch == 2
\* Requests submitted in one behaviour of the dispatch specification.
MaxDispatchReqs == 2
\* Requests submitted in one behaviour of the PCM specification.
MaxPcmReqs == 3
\* Requests submitted in one behaviour of the SET_PARAMS specification.
MaxSetParamsReqs == 1
\* Requests submitted in one behaviour of the lifecycle specification.
MaxLifeReqs == 3
\* Largest stream count of the devices of the direction specification.
MaxDirStreams == 10
\* Requests submitted in one behaviour of the direction specification.
MaxDirReqs == 1
\* Requests submitted in one behaviour of the realize specification.
MaxRealizeReqs == 2
\* Requests submitted in one behaviour of the PCM_INFO specification.
MaxInfoReqs == 2
\* Requests submitted in one behaviour of the reset specification.
MaxResetReqs == 3
\* Requests submitted in one behaviour of the configuration specification.
MaxConfigReqs == 1
\* Requests submitted in one behaviour of the short-body specification.
MaxShortReqs == 2
\* Requests submitted in one behaviour of the two-context specification.
MaxMutexReqs == 3
\* Requests submitted in one behaviour of the nested-notification
\* specification.
MaxNestedReqs == 3
\* Requests submitted in one behaviour of the table-index specification.
MaxTableReqs == 2
\* Requests submitted in one behaviour of the release specification.
MaxReleaseReqs == 3
\* Requests submitted in one behaviour of the prepare specification.
MaxPrepareReqs == 3
\* Requests submitted in one behaviour of the PCM_INFO size specification.
MaxInfoSizeReqs == 2
MaxTeardownReqs == 2
MaxIsolationReqs == 3
MaxReadOnlyReqs == 3
MaxDrainReqs == 2

\* ------------------------------------------------- protocol constants
\* Request codes, status codes, format and rate codes of the virtio sound
\* protocol (standard-headers/linux/virtio_snd.h), and the audio layer's
\* channel limit (audio/audio.h).
VIRTIO_SND_R_JACK_INFO == 1
VIRTIO_SND_R_JACK_REMAP == 2
VIRTIO_SND_R_PCM_INFO == 256
VIRTIO_SND_R_PCM_SET_PARAMS == 257
VIRTIO_SND_R_PCM_PREPARE == 258
VIRTIO_SND_R_PCM_RELEASE == 259
VIRTIO_SND_R_PCM_START == 260
VIRTIO_SND_R_PCM_STOP == 261
VIRTIO_SND_R_CHMAP_INFO == 512

VIRTIO_SND_S_OK == 32768
VIRTIO_SND_S_BAD_MSG == 32769
VIRTIO_SND_S_NOT_SUPP == 32770

VIRTIO_SND_PCM_FMT_S8 == 3
VIRTIO_SND_PCM_FMT_U8 == 4
VIRTIO_SND_PCM_FMT_S16 == 5
VIRTIO_SND_PCM_FMT_U16 == 6
VIRTIO_SND_PCM_FMT_S32 == 17
VIRTIO_SND_PCM_FMT_U32 == 18
VIRTIO_SND_PCM_FMT_FLOAT == 19

VIRTIO_SND_PCM_RATE_5512 == 0
VIRTIO_SND_PCM_RATE_44100 == 6
VIRTIO_SND_PCM_RATE_384000 == 13

VIRTIO_SND_D_OUTPUT == 0
VIRTIO_SND_D_INPUT == 1

AUDIO_MAX_CHANNELS == 16
VIRTIO_SND_CHMAP_MAX_SIZE == 18
VIRTIO_SOUND_HDA_FN_NID == 0

\* Width of unsigned long, the type of BIT()'s result, on an LP64 host.
BITS_PER_LONG == 64

\* sizeof of the wire records.
SIZEOF_HDR == 4
SIZEOF_PCM_HDR == 8
SIZEOF_QUERY_INFO == 16
SIZEOF_SET_PARAMS == 24
SIZEOF_PCM_INFO == 32
\* sizeof(cmd->elem), a pointer: the used length process_cmd reports.
SIZEOF_ELEM_PTR == 8

\* --------------------------------------------------------- values
NULL == [tag |-> "NULL"]
\* A non-null pointer that does not point to an object of the table's type.
WILD == [tag |-> "WILD"]
\* What a load outside a table may do instead of yielding a value.
FAULT == [tag |-> "FAULT"]

Min(a, b) == IF a < b THEN a ELSE b
Max(a, b) == IF a > b THEN a ELSE b

supported_formats ==
    { VIRTIO_SND_PCM_FMT_S8, VIRTIO_SND_PCM_FMT_U8, VIRTIO_SND_PCM_FMT_S16,
      VIRTIO_SND_PCM_FMT_U16, VIRTIO_SND_PCM_FMT_S32, VIRTIO_SND_PCM_FMT_U32,
      VIRTIO_SND_PCM_FMT_FLOAT }

supported_rates == VIRTIO_SND_PCM_RATE_5512 .. VIRTIO_SND_PCM_RATE_384000

\* BIT(nr) is 1UL << nr.  The value is the set of bit positions set in it.
\* For nr >= 64 the shift is undefined: the hardware shifters mask the count
\* (x86-64, aarch64) or the result is 0.
BIT(nr) ==
    IF nr < BITS_PER_LONG THEN { {nr} }
    ELSE { {nr % BITS_PER_LONG}, {} }

\* The possible truth values of (mask & BIT(nr)) != 0.
MaskTest(mask, nr) == { (b \cap mask) # {} : b \in BIT(nr) }

\* ------------------------------------------------ uint32_t values
\* A uint32_t is kept as the integer of the same 32 bits read as two's
\* complement: values below 2^31 are themselves, a value v >= 2^31 is
\* v - 2^32.  The operators work on the 16-bit halves, so that no
\* intermediate result leaves 32 bits.
U32Hi(a) == (a \div 65536) % 65536
U32Lo(a) == a % 65536

U32Of(hi, lo) ==
    IF hi >= 32768 THEN (hi - 65536) * 65536 + lo ELSE hi * 65536 + lo

\* a + b and a - b modulo 2^32.
U32Add(a, b) ==
    LET lo == U32Lo(a) + U32Lo(b)
        hi == U32Hi(a) + U32Hi(b) + (lo \div 65536)
    IN  U32Of(hi % 65536, lo % 65536)

U32Sub(a, b) ==
    LET lo == U32Lo(a) - U32Lo(b)
        hi == U32Hi(a) - U32Hi(b) + (lo \div 65536)
    IN  U32Of(hi % 65536, lo % 65536)

\* a < b as unsigned values.
U32Lt(a, b) ==
    \/ U32Hi(a) < U32Hi(b)
    \/ U32Hi(a) = U32Hi(b) /\ U32Lo(a) < U32Lo(b)

\* a / 2 as unsigned values.
U32Half(a) ==
    U32Of(U32Hi(a) \div 2, (U32Lo(a) \div 2) + (U32Hi(a) % 2) * 32768)

\* x * y modulo 2^16 for 16-bit x and y.
MulMod16(x, y) ==
    ((x % 256) * y + (((x \div 256) * y) % 256) * 256) % 65536

\* a * b modulo 2^32.
U32Mul(a, b) ==
    LET la == U32Lo(a)
        lb == U32Lo(b)
        X == la * (lb \div 256)
        t == (X % 256) * 256 + la * (lb % 256)
        hi == (X \div 256) + (t \div 65536) + MulMod16(U32Hi(a), lb)
              + MulMod16(la, U32Hi(b))
    IN  U32Of(hi % 65536, t % 65536)

\* The four bytes of a uint32_t in memory, least significant first.
LeBytes(v) ==
    << U32Lo(v) % 256, U32Lo(v) \div 256, U32Hi(v) % 256, U32Hi(v) \div 256 >>

\* The uint32_t stored in the four bytes of b behind offset off.
LeWord(b, off) ==
    U32Of(b[off + 4] * 256 + b[off + 3], b[off + 2] * 256 + b[off + 1])

\* The configuration space buffer before any callback has filled it.
ZeroConfigSpace == [i \in 1 .. 12 |-> 0]

\* virtio_snd_get_config: memcpy(config, &s->snd_conf, sizeof(s->snd_conf)),
\* the three fields of the block byte by byte.
virtio_snd_get_config(conf) ==
    LeBytes(conf.jacks) \o LeBytes(conf.streams) \o LeBytes(conf.chmaps)

\* virtio_snd_set_config: memcpy(&s->snd_conf, sndconfig,
\* sizeof(s->snd_conf)); the result is the block the fields then hold.
virtio_snd_set_config(buf) ==
    [jacks |-> LeWord(buf, 0), streams |-> LeWord(buf, 4),
     chmaps |-> LeWord(buf, 8)]

\* An iov_to_buf that reports every byte asked for as copied.
iov_to_buf_padded(req, offset, bytes) == bytes

\* iov_to_buf(out_sg, out_num, offset, buf, bytes): the bytes copied.
iov_to_buf(req, offset, bytes) == Min(bytes, Max(0, req.out_len - offset))

\* Fields of the request records, by the offsets of the C structs.
hdr_code(req) == req.w0
pcm_hdr_stream_id(req) == req.w4
set_params_buffer_bytes(req) == req.w8
set_params_period_bytes(req) == req.w12
set_params_features(req) == req.w16
set_params_channels(req) == req.b20
set_params_format(req) == req.b21
set_params_rate(req) == req.b22
query_info_start_id(req) == req.w4
query_info_count(req) == req.w8
query_info_size(req) == req.w12

\* ------------------------------------------------- stream tables
\* s->pcm->pcm_params and s->pcm->streams are arrays of snd_conf.streams
\* pointers allocated at realize; a table is a function on 0 .. n-1.  Memory
\* outside a table is not part of the model: a load from it yields a null
\* pointer, a wild pointer, or faults; a store to it has no effect on the
\* tables, or faults.
Load(tbl, i) == IF i \in DOMAIN tbl THEN { tbl[i] } ELSE { NULL, WILD, FAULT }

\* Mutant of Store: the value is written to every slot of the table.
StoreEverySlot(tbl, i, v) ==
    IF i \in DOMAIN tbl THEN [j \in DOMAIN tbl |-> v] ELSE tbl
Store(tbl, i, v) == IF i \in DOMAIN tbl THEN [tbl EXCEPT ![i] = v] ELSE tbl

\* g_new0(VirtIOSoundPCMParams, 1)
ZeroParams ==
    [tag |-> "params", features |-> 0, buffer_bytes |-> 0, period_bytes |-> 0,
     channels |-> 0, format |-> 0, rate |-> 0]

\* The outcome of an _impl function: the tables it leaves, the status it
\* returns, whether it called virtio_error(), and how the process died if it
\* did ("segv": invalid access, "abort": g_assert_not_reached()).
Ret(params, streams, status, broken) ==
    [params |-> params, streams |-> streams, status |-> status,
     broken |-> broken, fault |-> "none"]

Die(params, streams, how) ==
    [params |-> params, streams |-> streams, status |-> VIRTIO_SND_S_OK,
     broken |-> FALSE, fault |-> how]

virtio_snd_pcm_get_stream(conf, streams, stream_id) ==
    IF ~U32Lt(stream_id, conf.streams) THEN { NULL }
    ELSE Load(streams, stream_id)

virtio_snd_pcm_get_params(conf, params, stream_id) ==
    IF ~U32Lt(stream_id, conf.streams) THEN { NULL }
    ELSE Load(params, stream_id)

\* Lines 800-824 of virtio_snd_pcm_set_params_impl: the writes through
\* st_params and the three checks, in the order of the code.  The result is
\* the set of (record left behind, status returned).
SetParamsFields(st, p) ==
    LET st1 == [st EXCEPT !.features = p.features,
                          !.buffer_bytes = p.buffer_bytes,
                          !.period_bytes = p.period_bytes]
        st2 == [st1 EXCEPT !.channels = p.channels]
        st3 == [st2 EXCEPT !.format = p.format]
        st4 == [st3 EXCEPT !.rate = p.rate,
                           !.period_bytes = p.period_bytes,
                           !.buffer_bytes = p.buffer_bytes]
    IN  IF p.channels < 1 \/ p.channels > AUDIO_MAX_CHANNELS
        THEN { [st |-> st1, status |-> VIRTIO_SND_S_NOT_SUPP] }
        ELSE UNION {
               IF ~fok
               THEN { [st |-> st2, status |-> VIRTIO_SND_S_NOT_SUPP] }
               ELSE { IF ~rok
                      THEN [st |-> st3, status |-> VIRTIO_SND_S_NOT_SUPP]
                      ELSE [st |-> st4, status |-> VIRTIO_SND_S_OK]
                      : rok \in MaskTest(supported_rates, p.rate) }
               : fok \in MaskTest(supported_formats, p.format) }

\* The bounds check of virtio_snd_pcm_set_params_impl (line 790).
SetParamsIdRejected(conf, stream_id) == U32Lt(conf.streams, stream_id)

virtio_snd_pcm_set_params_impl(conf, params, streams, p) ==
    LET id == p.stream_id IN
    IF SetParamsIdRejected(conf, id)
    THEN { Ret(params, streams, VIRTIO_SND_S_BAD_MSG, TRUE) }
    ELSE UNION {
      IF slot = FAULT THEN { Die(params, streams, "segv") }
      ELSE
        LET params1 == IF slot = NULL THEN Store(params, id, ZeroParams)
                       ELSE params
        IN UNION {
             IF st = FAULT \/ st = NULL
             THEN { Die(params1, streams, "segv") }
             ELSE IF st = WILD
             THEN \* the writes go through a wild pointer
                  { Die(params1, streams, "segv") } \cup
                  { Ret(params1, streams, r.status, FALSE)
                    : r \in SetParamsFields(ZeroParams, p) }
             ELSE { Ret(Store(params1, id, r.st), streams, r.status, FALSE)
                    : r \in SetParamsFields(st, p) }
             : st \in virtio_snd_pcm_get_params(conf, params1, id) }
      : slot \in Load(params, id) }

\* virtio_snd_get_qemu_format: the audio layer's format, or "assert" where
\* the switch reaches g_assert_not_reached().
virtio_snd_get_qemu_format(format) ==
    CASE format = VIRTIO_SND_PCM_FMT_U8 -> "U8"
      [] format = VIRTIO_SND_PCM_FMT_S8 -> "S8"
      [] format = VIRTIO_SND_PCM_FMT_U16 -> "U16"
      [] format = VIRTIO_SND_PCM_FMT_S16 -> "S16"
      [] format = VIRTIO_SND_PCM_FMT_U32 -> "U32"
      [] format = VIRTIO_SND_PCM_FMT_S32 -> "S32"
      [] format = VIRTIO_SND_PCM_FMT_FLOAT -> "F32"
      [] OTHER -> "assert"

\* The frequencies of the rate codes 0 .. 13, in Hz.
RateHz ==
    << 5512, 8000, 11025, 16000, 22050, 32000, 44100, 48000, 64000, 88200,
       96000, 176400, 192000, 384000 >>

\* virtio_snd_get_qemu_freq: the frequency, or 0 where the switch reaches
\* g_assert_not_reached().
virtio_snd_get_qemu_freq(rate) ==
    IF rate \in supported_rates THEN RateHz[rate + 1] ELSE 0

virtio_snd_get_qemu_audsettings(params) ==
    [nchannels |-> Min(AUDIO_MAX_CHANNELS, params.channels),
     fmt |-> virtio_snd_get_qemu_format(params.format),
     freq |-> virtio_snd_get_qemu_freq(params.rate)]

\* Mutant of StreamDirection: the odd stream is not counted.
StreamDirectionHalf(conf, stream_id) ==
    IF stream_id < (conf.streams \div 2)
    THEN VIRTIO_SND_D_OUTPUT ELSE VIRTIO_SND_D_INPUT

\* The direction virtio_snd_pcm_prepare_impl gives stream_id (lines 966-967);
\* streams / 2 + (streams & 1).
StreamDirection(conf, stream_id) ==
    IF U32Lt(stream_id, U32Add(U32Half(conf.streams), conf.streams % 2))
    THEN VIRTIO_SND_D_OUTPUT ELSE VIRTIO_SND_D_INPUT

\* Mutant of NewStream: the Stream takes the largest channel count, whatever
\* the StreamParams say.
NewStreamMaxChannels(conf, stream_id, params, as) ==
    [tag |-> "stream", id |-> stream_id,
     direction |-> StreamDirection(conf, stream_id),
     hda_fn_nid |-> VIRTIO_SOUND_HDA_FN_NID, features |-> 0,
     channels_min |-> 1, channels_max |-> AUDIO_MAX_CHANNELS,
     formats |-> supported_formats, rates |-> supported_rates,
     buffer_bytes |-> params.buffer_bytes,
     period_bytes |-> params.period_bytes,
     as |-> as, desired_as |-> as,
     voice |-> NULL, flushing |-> FALSE]

\* The VirtIOSoundPCMStream built by lines 962-985.
NewStream(conf, stream_id, params, as) ==
    [tag |-> "stream", id |-> stream_id,
     direction |-> StreamDirection(conf, stream_id),
     hda_fn_nid |-> VIRTIO_SOUND_HDA_FN_NID, features |-> 0,
     channels_min |-> 1, channels_max |-> as.nchannels,
     formats |-> supported_formats, rates |-> supported_rates,
     buffer_bytes |-> params.buffer_bytes,
     period_bytes |-> params.period_bytes,
     as |-> as, desired_as |-> as,
     \* g_new0 leaves no backend voice and flushing false
     voice |-> NULL, flushing |-> FALSE]

virtio_snd_pcm_prepare_impl(conf, params, streams, stream_id) ==
    UNION {
      IF slot = FAULT THEN { Die(params, streams, "segv") }
      ELSE IF slot = NULL
      THEN { Ret(params, streams, VIRTIO_SND_S_BAD_MSG, FALSE) }
      ELSE IF ~U32Lt(stream_id, conf.streams)  \* get_params is NULL
      THEN { Ret(params, streams, VIRTIO_SND_S_BAD_MSG, FALSE) }
      ELSE IF slot = WILD
      THEN \* the settings are read through a wild pointer, the old stream
           \* is loaded from and the new one stored outside the table
           { Die(params, streams, "segv"), Die(params, streams, "abort"),
             Ret(params, streams, VIRTIO_SND_S_OK, FALSE) }
      ELSE LET as == virtio_snd_get_qemu_audsettings(slot) IN
           IF as.fmt = "assert" \/ as.freq = 0
           THEN { Die(params, streams, "abort") }
           ELSE { Ret(params,
                      Store(streams, stream_id,
                            NewStream(conf, stream_id, slot, as)),
                      VIRTIO_SND_S_OK, FALSE) }
      : slot \in Load(params, stream_id) }

\* ------------------------------------------------- request handlers
\* The outcome of a handler: the tables, cmd->resp.code, the info records it
\* copied to the reply buffer, virtio_error(), and a fault.
Done(params, streams, code, info, broken) ==
    [params |-> params, streams |-> streams, code |-> code, info |-> info,
     broken |-> broken, fault |-> "none"]

Dead(params, streams, how) ==
    [params |-> params, streams |-> streams, code |-> VIRTIO_SND_S_OK,
     info |-> << >>, broken |-> FALSE, fault |-> how]

FromImpl(r) ==
    [params |-> r.params, streams |-> r.streams, code |-> r.status,
     info |-> << >>, broken |-> r.broken, fault |-> r.fault]

\* The virtio_snd_pcm_set_params read from the out buffer.
DecodeSetParams(req) ==
    [stream_id |-> pcm_hdr_stream_id(req),
     buffer_bytes |-> set_params_buffer_bytes(req),
     period_bytes |-> set_params_period_bytes(req),
     features |-> set_params_features(req),
     channels |-> set_params_channels(req),
     format |-> set_params_format(req),
     rate |-> set_params_rate(req)]

\* Mutant of virtio_snd_handle_pcm_set_params: an accepted SET_PARAMS
\* prepares the stream with the new parameters.
SetParamsPreparingStream(conf, params, streams, req) ==
    IF iov_to_buf(req, 0, SIZEOF_SET_PARAMS) # SIZEOF_SET_PARAMS
    THEN { Done(params, streams, VIRTIO_SND_S_BAD_MSG, << >>, FALSE) }
    ELSE UNION {
           IF r.fault = "none" /\ r.status = VIRTIO_SND_S_OK
           THEN { FromImpl(q) :
                  q \in virtio_snd_pcm_prepare_impl(conf, r.params, r.streams,
                                                    pcm_hdr_stream_id(req)) }
           ELSE { FromImpl(r) }
           : r \in virtio_snd_pcm_set_params_impl(conf, params, streams,
                                                  DecodeSetParams(req)) }

virtio_snd_handle_pcm_set_params(conf, params, streams, req) ==
    IF iov_to_buf(req, 0, SIZEOF_SET_PARAMS) # SIZEOF_SET_PARAMS
    THEN { Done(params, streams, VIRTIO_SND_S_BAD_MSG, << >>, FALSE) }
    ELSE { FromImpl(r) :
           r \in virtio_snd_pcm_set_params_impl(conf, params, streams,
                                                DecodeSetParams(req)) }

virtio_snd_handle_pcm_prepare(conf, params, streams, req) ==
    IF iov_to_buf(req, SIZEOF_HDR, 4) # 4
    THEN { Done(params, streams, VIRTIO_SND_S_BAD_MSG, << >>, FALSE) }
    ELSE { FromImpl(r) :
           r \in virtio_snd_pcm_prepare_impl(conf, params, streams,
                                             pcm_hdr_stream_id(req)) }

\* Mutant of virtio_snd_handle_pcm_start_stop: STOP closes the stream and
\* clears its slot.
StartStopClosingOnStop(conf, params, streams, req, start) ==
    IF iov_to_buf(req, 0, SIZEOF_PCM_HDR) # SIZEOF_PCM_HDR
    THEN { Done(params, streams, VIRTIO_SND_S_BAD_MSG, << >>, FALSE) }
    ELSE { IF stream = FAULT THEN Dead(params, streams, "segv")
           ELSE IF stream = NULL
           THEN Done(params, streams, VIRTIO_SND_S_BAD_MSG, << >>, FALSE)
           ELSE Done(params,
                     IF start THEN streams
                     ELSE Store(streams, pcm_hdr_stream_id(req), NULL),
                     VIRTIO_SND_S_OK, << >>, FALSE)
           : stream \in virtio_snd_pcm_get_stream(conf, streams,
                                                  pcm_hdr_stream_id(req)) }

virtio_snd_handle_pcm_start_stop(conf, params, streams, req, start) ==
    IF iov_to_buf(req, 0, SIZEOF_PCM_HDR) # SIZEOF_PCM_HDR
    THEN { Done(params, streams, VIRTIO_SND_S_BAD_MSG, << >>, FALSE) }
    ELSE { IF stream = FAULT THEN Dead(params, streams, "segv")
           ELSE IF stream = NULL
           THEN Done(params, streams, VIRTIO_SND_S_BAD_MSG, << >>, FALSE)
           ELSE Done(params, streams, VIRTIO_SND_S_OK, << >>, FALSE)
           : stream \in virtio_snd_pcm_get_stream(conf, streams,
                                                  pcm_hdr_stream_id(req)) }

\* Mutant of virtio_snd_handle_pcm_release: the StreamParams of the id are
\* freed with the Stream.
ReleaseDroppingParams(conf, params, streams, req) ==
    IF iov_to_buf(req, SIZEOF_HDR, 4) # 4
    THEN { Done(params, streams, VIRTIO_SND_S_BAD_MSG, << >>, FALSE) }
    ELSE { IF stream = FAULT THEN Dead(params, streams, "segv")
           ELSE IF stream = NULL
           THEN Done(params, streams, VIRTIO_SND_S_BAD_MSG, << >>, TRUE)
           ELSE Done(Store(params, pcm_hdr_stream_id(req), NULL), streams,
                     VIRTIO_SND_S_OK, << >>, FALSE)
           : stream \in virtio_snd_pcm_get_stream(conf, streams,
                                                  pcm_hdr_stream_id(req)) }

virtio_snd_handle_pcm_release(conf, params, streams, req) ==
    IF iov_to_buf(req, SIZEOF_HDR, 4) # 4
    THEN { Done(params, streams, VIRTIO_SND_S_BAD_MSG, << >>, FALSE) }
    ELSE { IF stream = FAULT THEN Dead(params, streams, "segv")
           ELSE IF stream = NULL
           THEN Done(params, streams, VIRTIO_SND_S_BAD_MSG, << >>, TRUE)
           ELSE Done(params, streams, VIRTIO_SND_S_OK, << >>, FALSE)
           : stream \in virtio_snd_pcm_get_stream(conf, streams,
                                                  pcm_hdr_stream_id(req)) }

\* The virtio_snd_pcm_info record filled from a stream (lines 754-760).
InfoRecord(stream) ==
    [hda_fn_nid |-> stream.hda_fn_nid, features |-> stream.features,
     formats |-> stream.formats, rates |-> stream.rates,
     direction |-> stream.direction, channels_min |-> stream.channels_min,
     channels_max |-> stream.channels_max]

\* The loop of virtio_snd_handle_pcm_info (lines 744-763) from index i on,
\* acc being the records filled so far.  i, start_id + count and
\* i - start_id are uint32_t.  The memset of line 762 indexes the
\* count-element array with i itself, outside it when i >= count.
RECURSIVE PcmInfoLoop(_, _, _, _, _, _)
PcmInfoLoop(conf, params, streams, req, i, acc) ==
    IF ~U32Lt(i, U32Add(query_info_start_id(req), query_info_count(req)))
    THEN { Done(params, streams, VIRTIO_SND_S_OK, acc, FALSE) }
    ELSE UNION {
      IF stream = FAULT THEN { Dead(params, streams, "segv") }
      ELSE IF stream = NULL
      THEN { Done(params, streams, VIRTIO_SND_S_BAD_MSG, << >>, FALSE) }
      ELSE IF stream = WILD
      THEN { Dead(params, streams, "segv") } \cup
           PcmInfoLoop(conf, params, streams, req, U32Add(i, 1),
                       Append(acc, WILD))
      ELSE (IF ~U32Lt(i, query_info_count(req))
            THEN { Dead(params, streams, "segv") } ELSE {}) \cup
           PcmInfoLoop(conf, params, streams, req, U32Add(i, 1),
                       Append(acc, InfoRecord(stream)))
      : stream \in virtio_snd_pcm_get_stream(conf, streams, i) }

\* The test of lines 734-735: iov_size(in_sg) < sizeof(virtio_snd_hdr) +
\* req.size * req.count, the product in 32 bits and the sum in size_t.
InfoReplyTooSmall(req) ==
    LET product == U32Mul(query_info_size(req), query_info_count(req))
    IN  \/ product < 0                       \* 2^31 or more
        \/ req.in_len - SIZEOF_HDR < product

virtio_snd_handle_pcm_info(conf, params, streams, req) ==
    IF iov_to_buf(req, 0, SIZEOF_QUERY_INFO) # SIZEOF_QUERY_INFO
    THEN { Done(params, streams, VIRTIO_SND_S_BAD_MSG, << >>, FALSE) }
    ELSE IF InfoReplyTooSmall(req)
    THEN { Done(params, streams, VIRTIO_SND_S_BAD_MSG, << >>, FALSE) }
    ELSE PcmInfoLoop(conf, params, streams, req,
                     query_info_start_id(req), << >>)

\* The bytes iov_from_buf copies behind the response header (lines
\* 767-771): sizeof(virtio_snd_pcm_info) * req.count of the array, as far
\* as the reply buffer reaches.
InfoBytesCopied(req) ==
    LET room == Max(0, req.in_len - SIZEOF_HDR)
        count == query_info_count(req)
    IN  IF count < 0 \/ count > 2147483647 \div SIZEOF_PCM_INFO THEN room
        ELSE Min(SIZEOF_PCM_INFO * count, room)

\* Mutant of Dispatch: START runs the case of PREPARE.
DispatchStartAsPrepare(code) ==
    CASE code = VIRTIO_SND_R_JACK_INFO -> "jack"
      [] code = VIRTIO_SND_R_JACK_REMAP -> "jack"
      [] code = VIRTIO_SND_R_PCM_INFO -> "pcm_info"
      [] code = VIRTIO_SND_R_PCM_START -> "pcm_prepare"
      [] code = VIRTIO_SND_R_PCM_STOP -> "pcm_stop"
      [] code = VIRTIO_SND_R_PCM_SET_PARAMS -> "pcm_set_params"
      [] code = VIRTIO_SND_R_PCM_PREPARE -> "pcm_prepare"
      [] code = VIRTIO_SND_R_PCM_RELEASE -> "pcm_release"
      [] code = VIRTIO_SND_R_CHMAP_INFO -> "chmap_info"
      [] OTHER -> "default"

\* The switch of process_cmd (lines 1107-1143): the case a code selects.
Dispatch(code) ==
    CASE code = VIRTIO_SND_R_JACK_INFO -> "jack"
      [] code = VIRTIO_SND_R_JACK_REMAP -> "jack"
      [] code = VIRTIO_SND_R_PCM_INFO -> "pcm_info"
      [] code = VIRTIO_SND_R_PCM_START -> "pcm_start"
      [] code = VIRTIO_SND_R_PCM_STOP -> "pcm_stop"
      [] code = VIRTIO_SND_R_PCM_SET_PARAMS -> "pcm_set_params"
      [] code = VIRTIO_SND_R_PCM_PREPARE -> "pcm_prepare"
      [] code = VIRTIO_SND_R_PCM_RELEASE -> "pcm_release"
      [] code = VIRTIO_SND_R_CHMAP_INFO -> "chmap_info"
      [] OTHER -> "default"

\* The body of the selected case.
RunHandler(h, conf, params, streams, req) ==
    CASE h = "pcm_info" ->
           virtio_snd_handle_pcm_info(conf, params, streams, req)
      [] h = "pcm_start" ->
           virtio_snd_handle_pcm_start_stop(conf, params, streams, req, TRUE)
      [] h = "pcm_stop" ->
           virtio_snd_handle_pcm_start_stop(conf, params, streams, req, FALSE)
      [] h = "pcm_set_params" ->
           virtio_snd_handle_pcm_set_params(conf, params, streams, req)
      [] h = "pcm_prepare" ->
           virtio_snd_handle_pcm_prepare(conf, params, streams, req)
      [] h = "pcm_release" ->
           virtio_snd_handle_pcm_release(conf, params, streams, req)
      [] h = "default" ->
           { Done(params, streams, VIRTIO_SND_S_BAD_MSG, << >>, FALSE) }
      [] OTHER ->  \* jack, chmap_info, and the PCM codes of the first revision
           { Done(params, streams, VIRTIO_SND_S_NOT_SUPP, << >>, FALSE) }

\* process_cmd: what one request does.  sent says whether the response was
\* pushed to the virtqueue (virtqueue_push and virtio_notify, lines
\* 1145-1151), code is cmd->resp.code, used the length given to
\* virtqueue_push, info_bytes the bytes of info records copied to the reply.
Processed(o, h, sent, req) ==
    [params |-> o.params, streams |-> o.streams, code |-> o.code,
     info |-> o.info, broken |-> o.broken, fault |-> o.fault,
     handler |-> h, sent |-> sent,
     used |-> IF sent THEN SIZEOF_ELEM_PTR ELSE 0,
     info_bytes |-> IF sent /\ o.code = VIRTIO_SND_S_OK /\ h = "pcm_info"
                    THEN InfoBytesCopied(req)
                    ELSE 0]

process_cmd(conf, params, streams, req) ==
    IF iov_to_buf(req, 0, SIZEOF_HDR) # SIZEOF_HDR
    THEN \* logged as a guest error; nothing is pushed
         { Processed(Done(params, streams, VIRTIO_SND_S_OK, << >>, FALSE),
                     "none", FALSE, req) }
    ELSE LET h == Dispatch(hdr_code(req)) IN
         { Processed(o, h, o.fault = "none", req)
           : o \in RunHandler(h, conf, params, streams, req) }

\* ------------------------------------------------------- realize
\* virtio_snd_set_pcm: both tables hold snd_conf.streams null pointers.
virtio_snd_set_pcm(conf) == [i \in 0 .. conf.streams - 1 |-> NULL]

\* Mutant of DefaultParams: one channel.
DefaultParamsMono(i) ==
    [stream_id |-> i, buffer_bytes |-> 8192, period_bytes |-> 4096,
     features |-> 0, channels |-> 1, format |-> VIRTIO_SND_PCM_FMT_S16,
     rate |-> VIRTIO_SND_PCM_RATE_44100]

\* default_params of virtio_snd_common_realize (lines 1308-1313).
DefaultParams(i) ==
    [stream_id |-> i, buffer_bytes |-> 8192, period_bytes |-> 4096,
     features |-> 0, channels |-> 2, format |-> VIRTIO_SND_PCM_FMT_S16,
     rate |-> VIRTIO_SND_PCM_RATE_44100]

\* The loop of lines 1321-1337 from stream i on.
RECURSIVE RealizeLoop(_, _, _, _)
RealizeLoop(conf, params, streams, i) ==
    IF i >= conf.streams
    THEN { [ok |-> TRUE, queues |-> TRUE, params |-> params,
            streams |-> streams] }
    ELSE UNION {
      IF r.fault # "none" \/ r.status # VIRTIO_SND_S_OK
      THEN { [ok |-> FALSE, queues |-> TRUE, params |-> r.params,
              streams |-> r.streams] }
      ELSE UNION {
        IF q.fault # "none" \/ q.status # VIRTIO_SND_S_OK
        THEN { [ok |-> FALSE, queues |-> TRUE, params |-> q.params,
                streams |-> q.streams] }
        ELSE RealizeLoop(conf, q.params, q.streams, i + 1)
        : q \in virtio_snd_pcm_prepare_impl(conf, r.params, r.streams, i) }
      : r \in virtio_snd_pcm_set_params_impl(conf, params, streams,
                                             DefaultParams(i)) }

\* Mutant of ConfigValid: no upper limit on the stream count.
ConfigValidNoUpper(conf) ==
    /\ ~U32Lt(8, conf.jacks)
    /\ ~U32Lt(conf.streams, 1)
    /\ ~U32Lt(VIRTIO_SND_CHMAP_MAX_SIZE, conf.chmaps)

\* The configuration checks of lines 1285-1303.
ConfigValid(conf) ==
    /\ ~U32Lt(8, conf.jacks)
    /\ ~(U32Lt(conf.streams, 1) \/ U32Lt(10, conf.streams))
    /\ ~U32Lt(VIRTIO_SND_CHMAP_MAX_SIZE, conf.chmaps)

\* virtio_snd_common_realize: ok is FALSE where error_setg() was called,
\* queues says whether the virtqueues were added (lines 1314-1317).  The
\* tables are allocated first, by the stream count not yet checked.
virtio_snd_common_realize(conf) ==
    IF ~ConfigValid(conf)
    THEN { [ok |-> FALSE, queues |-> FALSE,
            params |-> virtio_snd_set_pcm(conf),
            streams |-> virtio_snd_set_pcm(conf)] }
    ELSE RealizeLoop(conf, virtio_snd_set_pcm(conf),
                     virtio_snd_set_pcm(conf), 0)

\* ---------------------------------------------------------- state
VARIABLES
    snd_conf,         \* s->snd_conf: [jacks, streams, chmaps]
    pcm_params,       \* s->pcm->pcm_params
    streams,          \* s->pcm->streams
    cmdq,             \* s->cmdq, head first
    processing_cmdq,  \* s->processing_cmdq
    cmdq_mutex,       \* s->cmdq_mutex is held
    pc,               \* "idle"; "drain": inside the loop of
                      \* virtio_snd_process_cmdq; "hung": blocked for ever
                      \* locking the mutex it already holds; "unrealized":
                      \* before realize; "failed": realize set an error;
                      \* "popping": inside the pop loop of
                      \* virtio_snd_handle_ctrl; "drain_popping": one
                      \* context inside the drain loop and another inside
                      \* the pop loop; "unrealize": inside the loop of
                      \* virtio_snd_unrealize; "unrealize_drain": inside
                      \* the virtio_snd_process_cmdq it calls;
                      \* "unrealize_close": before the two frees
    queues,           \* the virtqueues have been added
    config,           \* the configuration space buffer handed to the callbacks
    broken,           \* virtio_error() has been called
    fault,            \* "none", or how the process died
    nreq,             \* requests popped from the control virtqueue so far
    log,              \* history: the commands process_cmd has run, in order
    discarded,        \* history: handles of the commands freed by reset
    lastOp,           \* history: the operation that took the last step;
                      \* "handle_ctrl_nested" is a notification handled
                      \* during a drain pass
    teardown          \* virtio_snd_unrealize: deleted: virtio_del_queue has
                      \* removed the control virtqueue; i: the loop index;
                      \* had: the ids that had a Stream when it began;
                      \* freed: how often the Stream of each id was freed

vars == << snd_conf, pcm_params, streams, cmdq, processing_cmdq, cmdq_mutex,
           pc, queues, config, broken, fault, nreq, log, discarded, lastOp,
           teardown >>

\* A request: the out buffer and the size of the reply buffer.
Req(out_len, in_len, w0, w4, w8, w12, w16, b20, b21, b22) ==
    [out_len |-> out_len, in_len |-> in_len, w0 |-> w0, w4 |-> w4,
     w8 |-> w8, w12 |-> w12, w16 |-> w16, b20 |-> b20, b21 |-> b21,
     b22 |-> b22]

\* virtio_snd_unrealize has not run.
NoTeardown == [deleted |-> FALSE, i |-> 0, had |-> {}, freed |-> << >>]

\* Devices realized with the default jacks and chmaps and 1 .. MaxStreams
\* streams.
InitConfigs == [jacks : {0}, streams : 1 .. MaxStreams, chmaps : {0}]

\* The state a successful realize of one of the configurations leaves.
InitOver(configs) ==
    /\ snd_conf \in configs
    /\ \E r \in virtio_snd_common_realize(snd_conf) :
         /\ r.ok
         /\ pcm_params = r.params
         /\ streams = r.streams
         /\ queues = r.queues
         /\ config = ZeroConfigSpace
    /\ cmdq = << >>
    /\ processing_cmdq = FALSE
    /\ cmdq_mutex = FALSE
    /\ pc = "idle"
    /\ broken = FALSE
    /\ fault = "none"
    /\ nreq = 0
    /\ log = << >>
    /\ discarded = {}
    /\ lastOp = "realize"
    /\ teardown = NoTeardown

Init == InitOver(InitConfigs)

\* ------------------------------------------------------- actions
\* The sequences of at most k requests of menu.
Batches(menu, k) == UNION { [1 .. n -> menu] : n \in 0 .. k }

\* Mutant of Enqueue: QTAILQ_INSERT_HEAD instead of QTAILQ_INSERT_TAIL.
EnqueueAtHead(q, cmds) ==
    [i \in 1 .. Len(cmds) |-> cmds[Len(cmds) + 1 - i]] \o q

\* QTAILQ_INSERT_TAIL of each popped element, in pop order (line 1209).
Enqueue(q, cmds) == q \o cmds

\* Mutant of ProcessCmdqEntry: the test of the flag is missing.
ProcessCmdqEntryNoFlagTest(flag, mutex) ==
    IF mutex THEN "deadlock" ELSE "enter"

\* The entry of virtio_snd_process_cmdq (lines 1163-1168): "return" when the
\* flag is set, else the mutex is locked: "enter", or "deadlock" when this
\* context already holds it.
ProcessCmdqEntry(flag, mutex) ==
    IF flag THEN "return"
    ELSE IF mutex THEN "deadlock"
    ELSE "enter"

\* virtio_snd_handle_ctrl: pops the available requests, appends them and
\* calls virtio_snd_process_cmdq.  It runs from the idle device and, nested,
\* during a drain pass.
HandleCtrl(menu, cap) ==
    /\ fault = "none"
    /\ pc \in {"idle", "drain"}
    /\ \E batch \in Batches(menu, Min(MaxBatch, cap - nreq)) :
         /\ cmdq' = Enqueue(cmdq, [i \in 1 .. Len(batch) |->
                                     [h |-> nreq + i, req |-> batch[i]]])
         /\ nreq' = nreq + Len(batch)
    /\ LET e == ProcessCmdqEntry(processing_cmdq, cmdq_mutex) IN
         /\ processing_cmdq' = (processing_cmdq \/ e = "enter")
         /\ cmdq_mutex' = (cmdq_mutex \/ e = "enter")
         /\ pc' = CASE e = "enter" -> "drain"
                    [] e = "deadlock" -> "hung"
                    [] OTHER -> pc
    /\ lastOp' = IF pc = "drain" THEN "handle_ctrl_nested" ELSE "handle_ctrl"
    /\ UNCHANGED << teardown, snd_conf, pcm_params, streams, queues, config, broken, fault,
                    log, discarded >>

\* What the log keeps of a command process_cmd has run.
LogEntry(cmd, o) ==
    [h |-> cmd.h, req |-> cmd.req, handler |-> o.handler, sent |-> o.sent,
     code |-> o.code, used |-> o.used, info |-> o.info,
     info_bytes |-> o.info_bytes, fault |-> o.fault]

\* Mutant of DrainStep: the handler's changes of the StreamParams are not
\* there for the next request.
DrainStepStaleParams ==
    /\ fault = "none"
    /\ pc \in {"drain", "drain_popping", "unrealize_drain"}
    /\ cmdq # << >>
    /\ \E o \in process_cmd(snd_conf, pcm_params, streams, Head(cmdq).req) :
         /\ streams' = o.streams
         /\ broken' = (broken \/ o.broken)
         /\ fault' = o.fault
         /\ log' = Append(log, LogEntry(Head(cmdq), o))
         /\ cmdq' = IF o.fault = "none" THEN Tail(cmdq) ELSE cmdq
    /\ lastOp' = "drain_step"
    /\ UNCHANGED << teardown, snd_conf, pcm_params, processing_cmdq, cmdq_mutex, pc, queues,
                    config, nreq, discarded >>

\* One iteration of the loop of virtio_snd_process_cmdq (lines 1169-1178):
\* process_cmd on the head, then QTAILQ_REMOVE and g_free.
DrainStep ==
    /\ fault = "none"
    /\ pc \in {"drain", "drain_popping", "unrealize_drain"}
    /\ cmdq # << >>
    /\ \E o \in process_cmd(snd_conf, pcm_params, streams, Head(cmdq).req) :
         /\ pcm_params' = o.params
         /\ streams' = o.streams
         /\ broken' = (broken \/ o.broken)
         /\ fault' = o.fault
         /\ log' = Append(log, LogEntry(Head(cmdq), o))
         /\ cmdq' = IF o.fault = "none" THEN Tail(cmdq) ELSE cmdq
    /\ lastOp' = "drain_step"
    /\ UNCHANGED << teardown, snd_conf, processing_cmdq, cmdq_mutex, pc, queues, config, nreq,
                    discarded >>

\* Mutant of DrainEnd: the pass ends without looking at the queue.
DrainEndAnyQueue ==
    /\ fault = "none"
    /\ pc \in {"drain", "drain_popping", "unrealize_drain"}
    /\ processing_cmdq' = FALSE
    /\ cmdq_mutex' = FALSE
    /\ pc' = CASE pc = "drain_popping" -> "popping"
                [] pc = "unrealize_drain" -> "unrealize_close"
                [] OTHER -> "idle"
    /\ lastOp' = "drain_end"
    /\ UNCHANGED << teardown, snd_conf, pcm_params, streams, cmdq, queues, config, broken,
                    fault, nreq, log, discarded >>

\* The loop ends on the empty queue: the flag is cleared and the mutex
\* released (lines 1179-1180).
DrainEnd ==
    /\ fault = "none"
    /\ pc \in {"drain", "drain_popping", "unrealize_drain"}
    /\ cmdq = << >>
    /\ processing_cmdq' = FALSE
    /\ cmdq_mutex' = FALSE
    /\ pc' = CASE pc = "drain_popping" -> "popping"
                [] pc = "unrealize_drain" -> "unrealize_close"
                [] OTHER -> "idle"
    /\ lastOp' = "drain_end"
    /\ UNCHANGED << teardown, snd_conf, pcm_params, streams, cmdq, queues, config, broken,
                    fault, nreq, log, discarded >>

Handles(q) == { q[i].h : i \in 1 .. Len(q) }

\* Mutant of Reset: the first queued command is left in the queue.
ResetLeavingHead ==
    /\ fault = "none"
    /\ pc \in {"idle", "popping"}
    /\ ~cmdq_mutex
    /\ cmdq' = SubSeq(cmdq, 1, Min(1, Len(cmdq)))
    /\ discarded' = discarded \cup Handles(SubSeq(cmdq, 2, Len(cmdq)))
    /\ lastOp' = "reset"
    /\ UNCHANGED << teardown, snd_conf, pcm_params, streams, processing_cmdq,
                    cmdq_mutex, pc, queues, config, broken, fault, nreq, log >>

\* Mutant of Reset: every Stream is closed as well.
ResetClosingStreams ==
    /\ fault = "none"
    /\ pc \in {"idle", "popping"}
    /\ ~cmdq_mutex
    /\ cmdq' = << >>
    /\ discarded' = discarded \cup Handles(cmdq)
    /\ streams' = [i \in DOMAIN streams |-> NULL]
    /\ lastOp' = "reset"
    /\ UNCHANGED << teardown, snd_conf, pcm_params, processing_cmdq,
                    cmdq_mutex, pc, queues, config, broken, fault, nreq, log >>

\* Mutant of Reset: the configuration block is cleared as well.
ResetClearingConfig ==
    /\ fault = "none"
    /\ pc \in {"idle", "popping"}
    /\ ~cmdq_mutex
    /\ cmdq' = << >>
    /\ discarded' = discarded \cup Handles(cmdq)
    /\ snd_conf' = [jacks |-> 0, streams |-> 0, chmaps |-> 0]
    /\ lastOp' = "reset"
    /\ UNCHANGED << teardown, pcm_params, streams, processing_cmdq,
                    cmdq_mutex, pc, queues, config, broken, fault, nreq, log >>

\* virtio_snd_reset: frees every queued command under the mutex.  It runs
\* when no drain pass holds the mutex: from the idle device, and between
\* the steps of a notification that has not yet called
\* virtio_snd_process_cmdq.
Reset ==
    /\ fault = "none"
    /\ pc \in {"idle", "popping"}
    /\ ~cmdq_mutex
    /\ cmdq' = << >>
    /\ discarded' = discarded \cup Handles(cmdq)
    /\ lastOp' = "reset"
    /\ UNCHANGED << teardown, snd_conf, pcm_params, streams, processing_cmdq,
                    cmdq_mutex, pc, queues, config, broken, fault, nreq, log >>

\* The blocks the guest writes to the configuration space.
ConfigWrites == [jacks : {0}, streams : 0 .. MaxStreams + 1, chmaps : {0}]

\* The bytes of a block {jacks, streams, chmaps} as the guest lays them out.
BlockBytes(c) == LeBytes(c.jacks) \o LeBytes(c.streams) \o LeBytes(c.chmaps)

\* A set_config that refuses a block realize would refuse.
SetConfigValidating(blocks) ==
    /\ fault = "none"
    /\ pc = "idle"
    /\ \E c \in blocks :
         /\ config' = BlockBytes(c)
         /\ snd_conf' = IF ConfigValid(c) THEN virtio_snd_set_config(config')
                        ELSE snd_conf
    /\ lastOp' = "set_config"
    /\ UNCHANGED << teardown, pcm_params, streams, cmdq, processing_cmdq, cmdq_mutex,
                    pc, queues, broken, fault, nreq, log, discarded >>

\* A guest write of the block c to the configuration space: the transport
\* stores the bytes in the buffer and calls virtio_snd_set_config on it.
SetConfigOver(blocks) ==
    /\ fault = "none"
    /\ pc = "idle"
    /\ \E c \in blocks :
         /\ config' = BlockBytes(c)
         /\ snd_conf' = virtio_snd_set_config(config')
    /\ lastOp' = "set_config"
    /\ UNCHANGED << teardown, pcm_params, streams, cmdq, processing_cmdq, cmdq_mutex,
                    pc, queues, broken, fault, nreq, log, discarded >>

SetConfig == SetConfigOver(ConfigWrites)

\* A guest read of the configuration space: the transport calls
\* virtio_snd_get_config on the buffer and hands the bytes to the guest.
GetConfig ==
    /\ fault = "none"
    /\ pc = "idle"
    /\ config' = virtio_snd_get_config(snd_conf)
    /\ lastOp' = "get_config"
    /\ UNCHANGED << teardown, snd_conf, pcm_params, streams, cmdq, processing_cmdq,
                    cmdq_mutex, pc, queues, broken, fault, nreq, log,
                    discarded >>

NextOver(menu, cap) ==
    \/ HandleCtrl(menu, cap)
    \/ DrainStep
    \/ DrainEnd
    \/ Reset
    \/ SetConfig

\* ------------------------------------------------------ requests
ReqShort == Req(2, 4, 0, 0, 0, 0, 0, 0, 0, 0)
ReqHdrOnly(code) == Req(SIZEOF_HDR, 4, code, 0, 0, 0, 0, 0, 0, 0)
ReqStream(code, id) == Req(SIZEOF_PCM_HDR, 4, code, id, 0, 0, 0, 0, 0, 0)
ReqInfo(start_id, count, in_len) ==
    Req(SIZEOF_QUERY_INFO, in_len, VIRTIO_SND_R_PCM_INFO, start_id, count,
        SIZEOF_PCM_INFO, 0, 0, 0, 0)
ReqSetParams(id, buffer, period, features, channels, format, rate) ==
    Req(SIZEOF_SET_PARAMS, 4, VIRTIO_SND_R_PCM_SET_PARAMS, id, buffer, period,
        features, channels, format, rate)

\* The requests of the queue engine's specification: one shorter than the
\* header, a jack request, an undefined code, and three PCM requests for
\* stream 0.
EngineMenu ==
    { ReqShort,
      ReqHdrOnly(VIRTIO_SND_R_JACK_INFO),
      ReqHdrOnly(0),
      ReqSetParams(0, 4096, 2048, 1, 1, VIRTIO_SND_PCM_FMT_U8,
                   VIRTIO_SND_PCM_RATE_5512),
      ReqStream(VIRTIO_SND_R_PCM_PREPARE, 0),
      ReqStream(VIRTIO_SND_R_PCM_RELEASE, 0) }

Next == NextOver(EngineMenu, MaxReqs)

Spec == Init /\ [][Next]_vars

\* ------------------------------------------------- queue engine claims
Sent(i) == log[i].sent

\* C1: every request appended to the pending queue and not discarded by a
\* reset is answered exactly once: it is still queued, or it was discarded
\* by reset, or process_cmd ran on it once and pushed one response; no
\* request leaves the queue without a response.
C1_EveryRequestAnsweredOnce ==
    /\ \A h \in 1 .. nreq :
         \/ h \in Handles(cmdq)
         \/ h \in discarded
         \/ \E i \in 1 .. Len(log) : log[i].h = h
    /\ \A i, j \in 1 .. Len(log) : log[i].h = log[j].h => i = j
    /\ \A i \in 1 .. Len(log) : Sent(i)

\* C2: responses are delivered in arrival order: of any two responses
\* pushed to the virtqueue, the one pushed first answers the request that
\* was appended first (handles number the requests in arrival order, the
\* log lists them in the order process_cmd ran).
C2_ResponsesInArrivalOrder ==
    \A i, j \in 1 .. Len(log) :
        (i < j /\ Sent(i) /\ Sent(j)) => log[i].h < log[j].h

\* Three requests, not all alike, have been answered one after the other.
C2_Witness ==
    /\ Len(log) = 3
    /\ \A i \in 1 .. 3 : Sent(i)
    /\ log[1].req # log[2].req
    /\ lastOp = "drain_step"

\* C3: at most one drain pass is active: a call of virtio_snd_process_cmdq
\* made while processing_cmdq is set (here by a notification handled during
\* a drain pass) returns at once: it removes no queued request (the queue
\* only grows by the requests the notification appended), delivers no
\* response, leaves the flag and the mutex as they are, and the caller goes
\* on in the same drain pass.
C3_NestedDrainReturns ==
    [][ (processing_cmdq /\ lastOp' \in {"handle_ctrl", "handle_ctrl_nested"})
        => /\ processing_cmdq' = processing_cmdq
           /\ cmdq_mutex' = cmdq_mutex
           /\ pc' = pc
           /\ log' = log
           /\ Len(cmdq') >= Len(cmdq)
           /\ SubSeq(cmdq', 1, Len(cmdq)) = cmdq ]_vars

\* A notification was handled during a drain pass that has answered a
\* request and still has requests to process.
C3_Witness ==
    /\ lastOp = "handle_ctrl_nested"
    /\ processing_cmdq
    /\ pc = "drain"
    /\ log # << >>
    /\ cmdq # << >>
    /\ cmdq[Len(cmdq)].h = nreq

\* ------------------------------------------------------ dispatch
\* Request codes around every code the protocol defines, and two large ones
\* (the largest is 2^31 - 1).
DispatchCodes ==
    (0 .. 3) \cup (255 .. 262) \cup (511 .. 513) \cup {65535, 2147483647}

\* A full-length request of each code for stream 0 or 1; read as a query it
\* asks for one info record, read as parameters it carries the defaults
\* with a 32-byte period.
DispatchMenu ==
    { Req(SIZEOF_SET_PARAMS, SIZEOF_HDR + SIZEOF_PCM_INFO, code, id, 1,
          SIZEOF_PCM_INFO, 0, 2, VIRTIO_SND_PCM_FMT_S16,
          VIRTIO_SND_PCM_RATE_44100)
      : code \in DispatchCodes, id \in {0, 1} }

NextDispatch == NextOver(DispatchMenu, MaxDispatchReqs)

SpecDispatch == Init /\ [][NextDispatch]_vars

\* The handler and, for the stubs, the status the protocol fixes for a code.
ExpectedHandler(code) ==
    CASE code \in {VIRTIO_SND_R_JACK_INFO, VIRTIO_SND_R_JACK_REMAP} -> "jack"
      [] code = VIRTIO_SND_R_CHMAP_INFO -> "chmap_info"
      [] code = VIRTIO_SND_R_PCM_INFO -> "pcm_info"
      [] code = VIRTIO_SND_R_PCM_SET_PARAMS -> "pcm_set_params"
      [] code = VIRTIO_SND_R_PCM_PREPARE -> "pcm_prepare"
      [] code = VIRTIO_SND_R_PCM_START -> "pcm_start"
      [] code = VIRTIO_SND_R_PCM_STOP -> "pcm_stop"
      [] code = VIRTIO_SND_R_PCM_RELEASE -> "pcm_release"
      [] OTHER -> "default"

FullHeader(i) == log[i].req.out_len >= SIZEOF_HDR

\* The routing half of C4: every request with a full header went to the
\* handler of its code, the stubs answered NOT_SUPP and the default case
\* BAD_MSG.
DispatchRouting ==
    \A i \in 1 .. Len(log) :
        FullHeader(i) =>
            LET h == ExpectedHandler(log[i].req.w0) IN
            /\ log[i].handler = h
            /\ h \in {"jack", "chmap_info"}
                 => log[i].code = VIRTIO_SND_S_NOT_SUPP
            /\ h = "default" => log[i].code = VIRTIO_SND_S_BAD_MSG

\* C4: dispatch is total and fixed: JACK_INFO, JACK_REMAP and CHMAP_INFO are
\* answered NOT_SUPP, each PCM code goes to its own handler, every other
\* code is answered BAD_MSG, and in every case a response is delivered and
\* the drain pass goes on with the next queued request.
C4_DispatchTotal ==
    /\ DispatchRouting
    /\ \A i \in 1 .. Len(log) :
         FullHeader(i) => (Sent(i) /\ log[i].fault = "none")

\* ------------------------------------------------------ PCM requests
\* The parameters the PCM specification's requests carry; realize stores
\* other values in every field.
ReqSetParamsOf(id, channels, format, rate) ==
    ReqSetParams(id, 4096, 2048, 1, channels, format, rate)

\* SET_PARAMS for stream 0 with a channel count, a format or a rate outside
\* the supported ones and with supported ones, SET_PARAMS for ids at and
\* past the end of the tables, PREPARE for stream 0 and for ids outside the
\* tables, RELEASE, START and STOP for stream 0.
PcmMenu ==
    { ReqSetParamsOf(0, 0, VIRTIO_SND_PCM_FMT_S16, VIRTIO_SND_PCM_RATE_44100),
      ReqSetParamsOf(0, AUDIO_MAX_CHANNELS + 1, VIRTIO_SND_PCM_FMT_S16,
                     VIRTIO_SND_PCM_RATE_44100),
      ReqSetParamsOf(0, 1, 0, VIRTIO_SND_PCM_RATE_44100),
      ReqSetParamsOf(0, 1, VIRTIO_SND_PCM_FMT_U8,
                     VIRTIO_SND_PCM_RATE_384000 + 1),
      ReqSetParamsOf(0, 1, VIRTIO_SND_PCM_FMT_U8, VIRTIO_SND_PCM_RATE_5512),
      ReqSetParamsOf(1, 1, VIRTIO_SND_PCM_FMT_U8, VIRTIO_SND_PCM_RATE_5512),
      ReqSetParamsOf(2, 1, VIRTIO_SND_PCM_FMT_U8, VIRTIO_SND_PCM_RATE_5512),
      ReqStream(VIRTIO_SND_R_PCM_PREPARE, 0),
      ReqStream(VIRTIO_SND_R_PCM_PREPARE, 2),
      ReqStream(VIRTIO_SND_R_PCM_PREPARE, 2147483647),
      ReqStream(VIRTIO_SND_R_PCM_RELEASE, 0),
      ReqStream(VIRTIO_SND_R_PCM_START, 0),
      ReqStream(VIRTIO_SND_R_PCM_STOP, 0) }

NextPcm == NextOver(PcmMenu, MaxPcmReqs)

SpecPcm == Init /\ [][NextPcm]_vars

\* This step is an iteration of the drain loop that ran the named handler
\* on a request carrying a whole body of the given size.
Ran(handler, size) ==
    /\ Len(log') = Len(log) + 1
    /\ log'[Len(log')].handler = handler
    /\ log'[Len(log')].req.out_len >= size

\* The request that step processed, its stream id and the log entry made.
Ran_entry == log'[Len(log')]
Ran_req == log'[Len(log')].req
Ran_id == pcm_hdr_stream_id(log'[Len(log')].req)

\* A stream id of the configured range that has its slots in the tables.
ValidId(id) == id < snd_conf.streams /\ id \in DOMAIN pcm_params

\* The six values of a stored StreamParams, and of a SET_PARAMS request.
SixOf(st) ==
    << st.features, st.buffer_bytes, st.period_bytes, st.channels, st.format,
       st.rate >>

SixOfReq(req) ==
    << set_params_features(req), set_params_buffer_bytes(req),
       set_params_period_bytes(req), set_params_channels(req),
       set_params_format(req), set_params_rate(req) >>

\* C5: SET_PARAMS for a valid stream id with channels = 0 or channels >
\* AUDIO_MAX_CHANNELS is answered NOT_SUPP and leaves all six stored values
\* of that id as they were.
C5_BadChannelsLeaveParams ==
    [][ ( /\ Ran("pcm_set_params", SIZEOF_SET_PARAMS)
          /\ ValidId(Ran_id)
          /\ \/ set_params_channels(Ran_req) = 0
             \/ set_params_channels(Ran_req) > AUDIO_MAX_CHANNELS )
        => /\ Ran_entry.sent
           /\ Ran_entry.code = VIRTIO_SND_S_NOT_SUPP
           /\ SixOf(pcm_params'[Ran_id]) = SixOf(pcm_params[Ran_id]) ]_vars

\* C6: StreamParams are never partially updated: after a SET_PARAMS request
\* for a valid stream id, accepted or rejected, the six stored values are
\* those stored before or those of the request, never a mixture.
C6_NoPartialUpdate ==
    [][ ( /\ Ran("pcm_set_params", SIZEOF_SET_PARAMS)
          /\ ValidId(Ran_id)
          /\ Ran_entry.sent )
        => \/ SixOf(pcm_params'[Ran_id]) = SixOf(pcm_params[Ran_id])
           \/ SixOf(pcm_params'[Ran_id]) = SixOfReq(Ran_req) ]_vars

\* C7: SET_PARAMS with a stream id >= the stream count, the count itself
\* included, is answered BAD_MSG and creates or changes no StreamParams.
C7_BadIdRejected ==
    [][ ( /\ Ran("pcm_set_params", SIZEOF_SET_PARAMS)
          /\ Ran_id >= snd_conf.streams )
        => /\ Ran_entry.sent
           /\ Ran_entry.code = VIRTIO_SND_S_BAD_MSG
           /\ pcm_params' = pcm_params ]_vars

\* A SET_PARAMS for stream id has succeeded: at realize for every id of the
\* tables (lines 1321-1337), or by a request answered OK.
SetParamsSucceeded(id) ==
    \/ id \in DOMAIN pcm_params
    \/ \E i \in 1 .. Len(log) :
         /\ log[i].handler = "pcm_set_params"
         /\ pcm_hdr_stream_id(log[i].req) = id
         /\ Sent(i)
         /\ log[i].code = VIRTIO_SND_S_OK

\* C9: PREPARE for a stream id for which no SET_PARAMS has ever succeeded
\* (rejected attempts do not count) is answered BAD_MSG and creates no
\* Stream.
C9_PrepareWithoutParams ==
    [][ ( /\ Ran("pcm_prepare", SIZEOF_PCM_HDR)
          /\ ~SetParamsSucceeded(Ran_id) )
        => /\ Ran_entry.sent
           /\ Ran_entry.code = VIRTIO_SND_S_BAD_MSG
           /\ streams' = streams ]_vars

\* Log entry i is the handler's answer to a whole request for stream id.
Answered(i, handler, id) ==
    /\ log[i].handler = handler
    /\ log[i].req.out_len >= SIZEOF_PCM_HDR
    /\ pcm_hdr_stream_id(log[i].req) = id
    /\ Sent(i)

\* C10: for a stream id that has a Stream, a RELEASE answered OK followed,
\* with no PREPARE for that id in between, by a second RELEASE for the id:
\* the second is answered BAD_MSG.
C10_SecondReleaseRejected ==
    \A id \in DOMAIN streams :
      \A i, j \in 1 .. Len(log) :
        ( /\ i < j
          /\ Answered(i, "pcm_release", id)
          /\ log[i].code = VIRTIO_SND_S_OK
          /\ Answered(j, "pcm_release", id)
          /\ \A k \in (i + 1) .. (j - 1) : log[k].handler # "pcm_prepare" )
        => log[j].code = VIRTIO_SND_S_BAD_MSG

\* -------------------------------------------------- SET_PARAMS values
\* Channel counts, formats and rates at the edges of the supported ranges
\* and of the 64-bit masks.
ChannelSamples == {0, 1, AUDIO_MAX_CHANNELS, AUDIO_MAX_CHANNELS + 1, 255}

FormatSamples ==
    {0, VIRTIO_SND_PCM_FMT_S8, VIRTIO_SND_PCM_FMT_FLOAT,
     VIRTIO_SND_PCM_FMT_FLOAT + 1, BITS_PER_LONG - 1, BITS_PER_LONG, 255}

RateSamples ==
    {VIRTIO_SND_PCM_RATE_5512, VIRTIO_SND_PCM_RATE_384000,
     VIRTIO_SND_PCM_RATE_384000 + 1, BITS_PER_LONG - 1, BITS_PER_LONG, 255}

\* SET_PARAMS for stream 0: every format with the sampled channel counts and
\* rates, and every rate with the sampled channel counts and formats.
SetParamsMenu ==
    { ReqSetParamsOf(0, c, f, r)
      : c \in ChannelSamples, f \in 0 .. 255, r \in RateSamples } \cup
    { ReqSetParamsOf(0, c, f, r)
      : c \in ChannelSamples, f \in FormatSamples, r \in 0 .. 255 }

NextSetParams == NextOver(SetParamsMenu, MaxSetParamsReqs)

SpecSetParams == Init /\ [][NextSetParams]_vars

\* The formats and rates the protocol names as supported (lines 581-602).
FormatSupported(format) ==
    format \in {VIRTIO_SND_PCM_FMT_S8, VIRTIO_SND_PCM_FMT_U8,
                VIRTIO_SND_PCM_FMT_S16, VIRTIO_SND_PCM_FMT_U16,
                VIRTIO_SND_PCM_FMT_S32, VIRTIO_SND_PCM_FMT_U32,
                VIRTIO_SND_PCM_FMT_FLOAT}

RateSupported(rate) ==
    rate \in VIRTIO_SND_PCM_RATE_5512 .. VIRTIO_SND_PCM_RATE_384000

\* C8: for a valid stream id and every 8-bit channels, format and rate,
\* SET_PARAMS is answered OK exactly when channels is in 1 ..
\* AUDIO_MAX_CHANNELS, format is one of the seven supported formats and rate
\* one of the fourteen supported rates, and NOT_SUPP otherwise; every format
\* or rate code outside the supported sets, up to 255, is rejected.
C8_AcceptedIffSupported ==
    [][ ( /\ Ran("pcm_set_params", SIZEOF_SET_PARAMS)
          /\ ValidId(Ran_id) )
        => /\ Ran_entry.sent
           /\ Ran_entry.code =
                IF /\ set_params_channels(Ran_req) \in 1 .. AUDIO_MAX_CHANNELS
                   /\ FormatSupported(set_params_format(Ran_req))
                   /\ RateSupported(set_params_rate(Ran_req))
                THEN VIRTIO_SND_S_OK
                ELSE VIRTIO_SND_S_NOT_SUPP ]_vars

\* ------------------------------------------------------ lifecycle
\* START and STOP for streams 0 and 1, PREPARE and RELEASE for stream 0.
LifecycleMenu ==
    { ReqStream(VIRTIO_SND_R_PCM_START, 0),
      ReqStream(VIRTIO_SND_R_PCM_STOP, 0),
      ReqStream(VIRTIO_SND_R_PCM_START, 1),
      ReqStream(VIRTIO_SND_R_PCM_STOP, 1),
      ReqStream(VIRTIO_SND_R_PCM_PREPARE, 0),
      ReqStream(VIRTIO_SND_R_PCM_RELEASE, 0) }

NextLifecycle == NextOver(LifecycleMenu, MaxLifeReqs)

SpecLifecycle == Init /\ [][NextLifecycle]_vars

\* id is a stream id of the configured range and has a Stream.
HasStream(id) ==
    /\ id < snd_conf.streams
    /\ id \in DOMAIN streams
    /\ streams[id] # NULL

\* C11: for a stream id (an id below the configured stream count) that has
\* a Stream, every START and every STOP, in any order and however often
\* repeated, is answered OK and leaves the Stream as it is: the same
\* object with the same direction and settings, and the same StreamParams.
C11_StartStopKeepStream ==
    [][ ( /\ \/ Ran("pcm_start", SIZEOF_PCM_HDR)
             \/ Ran("pcm_stop", SIZEOF_PCM_HDR)
          /\ HasStream(Ran_id) )
        => /\ Ran_entry.sent
           /\ Ran_entry.code = VIRTIO_SND_S_OK
           /\ streams' = streams
           /\ pcm_params' = pcm_params ]_vars

\* START, STOP, START for stream 0 have been answered, and the stream is
\* there.
C11_Witness ==
    /\ Len(log) = 3
    /\ log[1].handler = "pcm_start"
    /\ log[2].handler = "pcm_stop"
    /\ log[3].handler = "pcm_start"
    /\ \A i \in 1 .. 3 :
         /\ pcm_hdr_stream_id(log[i].req) = 0
         /\ Sent(i)
         /\ log[i].code = VIRTIO_SND_S_OK
    /\ HasStream(0)

\* ------------------------------------------------------ direction
\* Devices realized with 1 .. MaxDirStreams streams.
DirectionConfigs == [jacks : {0}, streams : 1 .. MaxDirStreams, chmaps : {0}]

InitDirection == InitOver(DirectionConfigs)

\* PREPARE for every stream id of the largest device.
DirectionMenu ==
    { ReqStream(VIRTIO_SND_R_PCM_PREPARE, id) : id \in 0 .. MaxDirStreams - 1 }

NextDirection == NextOver(DirectionMenu, MaxDirReqs)

SpecDirection == InitDirection /\ [][NextDirection]_vars

\* The direction rule: OUTPUT if i < N/2 + (N mod 2), INPUT otherwise; and
\* its instances for N = 5, 4 and 1.
DirectionRule(N, i) ==
    IF i < (N \div 2) + (N % 2) THEN VIRTIO_SND_D_OUTPUT
    ELSE VIRTIO_SND_D_INPUT

DirectionExamples(N, i, direction) ==
    /\ N = 5 => (direction = VIRTIO_SND_D_OUTPUT <=> i \in {0, 1, 2})
    /\ N = 4 => (direction = VIRTIO_SND_D_OUTPUT <=> i \in {0, 1})
    /\ N = 1 => direction = VIRTIO_SND_D_OUTPUT

\* C12: for a stream count N in 1 .. 10 and a stream id i < N, the Stream
\* PREPARE creates has direction OUTPUT if i < N/2 + (N mod 2) and INPUT
\* otherwise (N = 5: OUTPUT 0, 1, 2; N = 4: OUTPUT 0, 1; N = 1: OUTPUT 0).
\* N is the stream count of the configuration block when PREPARE runs:
\* at realize for every stream, and at each PREPARE request answered OK.
C12_DirectionRule ==
    [][ /\ lastOp = "realize" =>
             \A i \in DOMAIN streams :
                 /\ streams[i].direction =
                        DirectionRule(snd_conf.streams, i)
                 /\ DirectionExamples(snd_conf.streams, i,
                                      streams[i].direction)
        /\ ( /\ Ran("pcm_prepare", SIZEOF_PCM_HDR)
             /\ Ran_entry.sent
             /\ Ran_entry.code = VIRTIO_SND_S_OK
             /\ snd_conf.streams \in 1 .. 10
             /\ Ran_id < snd_conf.streams
             /\ Ran_id \in DOMAIN streams )
           => /\ streams'[Ran_id].direction =
                     DirectionRule(snd_conf.streams, Ran_id)
              /\ DirectionExamples(snd_conf.streams, Ran_id,
                                   streams'[Ran_id].direction) ]_vars

\* On a device of 5 streams PREPARE for stream 3 has been answered OK;
\* stream 3 is an input and stream 2 an output.
C12_Witness ==
    /\ snd_conf.streams = 5
    /\ DOMAIN streams = 0 .. 4
    /\ lastOp = "drain_step"
    /\ log # << >>
    /\ log[Len(log)].handler = "pcm_prepare"
    /\ pcm_hdr_stream_id(log[Len(log)].req) = 3
    /\ Sent(Len(log))
    /\ log[Len(log)].code = VIRTIO_SND_S_OK
    /\ streams[3].direction = VIRTIO_SND_D_INPUT
    /\ streams[2].direction = VIRTIO_SND_D_OUTPUT

\* -------------------------------------------------------- realize
\* The property values a device is created with: each count at 0, at its
\* limit and just past it.
RealizeConfigs ==
    [jacks : {0, 8, 9}, streams : {0, 1, 2, 10, 11},
     chmaps : {0, VIRTIO_SND_CHMAP_MAX_SIZE, VIRTIO_SND_CHMAP_MAX_SIZE + 1}]

\* The device before realize: properties set, no tables, no virtqueues.
InitUnrealized ==
    /\ snd_conf \in RealizeConfigs
    /\ pcm_params = << >>
    /\ streams = << >>
    /\ queues = FALSE
    /\ config = ZeroConfigSpace
    /\ cmdq = << >>
    /\ processing_cmdq = FALSE
    /\ cmdq_mutex = FALSE
    /\ pc = "unrealized"
    /\ broken = FALSE
    /\ fault = "none"
    /\ nreq = 0
    /\ log = << >>
    /\ discarded = {}
    /\ lastOp = "instance_init"
    /\ teardown = NoTeardown

\* virtio_snd_realize: virtio_snd_common_realize on the device's
\* properties.
Realize ==
    /\ pc = "unrealized"
    /\ \E r \in virtio_snd_common_realize(snd_conf) :
         /\ pcm_params' = r.params
         /\ streams' = r.streams
         /\ queues' = r.queues
         /\ config' = config
         /\ pc' = IF r.ok THEN "idle" ELSE "failed"
         /\ lastOp' = IF r.ok THEN "realize" ELSE "realize_failed"
    /\ UNCHANGED << teardown, snd_conf, cmdq, processing_cmdq, cmdq_mutex, broken,
                    fault, nreq, log, discarded >>

\* PREPARE and START for stream 0 and a PCM_INFO for its record.
RealizeMenu ==
    { ReqStream(VIRTIO_SND_R_PCM_PREPARE, 0),
      ReqStream(VIRTIO_SND_R_PCM_START, 0),
      ReqInfo(0, 1, SIZEOF_HDR + SIZEOF_PCM_INFO) }

NextRealize ==
    \/ Realize
    \/ NextOver(RealizeMenu, MaxRealizeReqs)

SpecRealize == InitUnrealized /\ [][NextRealize]_vars

\* A valid configuration: jacks <= 8, 1 <= streams <= 10, chmaps <= the
\* channel-map maximum.
ValidConfiguration(conf) ==
    /\ conf.jacks <= 8
    /\ conf.streams >= 1
    /\ conf.streams <= 10
    /\ conf.chmaps <= VIRTIO_SND_CHMAP_MAX_SIZE

\* The default StreamParams: features 0, buffer 8192, period 4096, 2
\* channels, S16, 44100 Hz.
IsDefaultParams(st) ==
    /\ st # NULL
    /\ SixOf(st) = << 0, 8192, 4096, 2, VIRTIO_SND_PCM_FMT_S16,
                      VIRTIO_SND_PCM_RATE_44100 >>

\* A Stream built from the defaults, prepared and not running: no backend
\* voice is open and nothing is being flushed.
IsDefaultStream(stream, i) ==
    /\ stream # NULL
    /\ stream.id = i
    /\ stream.as = [nchannels |-> 2, fmt |-> "S16", freq |-> 44100]
    /\ stream.desired_as = stream.as
    /\ stream.buffer_bytes = 8192
    /\ stream.period_bytes = 4096
    /\ stream.channels_min = 1
    /\ stream.channels_max = 2
    /\ stream.voice = NULL
    /\ stream.flushing = FALSE

\* C13: for every valid configuration realize succeeds and leaves every
\* stream id below the stream count with the default StreamParams and with
\* a Stream built from them, prepared and not running.
C13_RealizeAppliesDefaults ==
    [][ (pc = "unrealized" /\ ValidConfiguration(snd_conf))
        => /\ pc' = "idle"
           /\ queues'
           /\ DOMAIN pcm_params' = 0 .. snd_conf.streams - 1
           /\ DOMAIN streams' = 0 .. snd_conf.streams - 1
           /\ \A i \in 0 .. snd_conf.streams - 1 :
                /\ IsDefaultParams(pcm_params'[i])
                /\ IsDefaultStream(streams'[i], i) ]_vars

\* A device with every count at its limit has been realized.
C13_Witness ==
    /\ lastOp = "realize"
    /\ snd_conf = [jacks |-> 8, streams |-> 10,
                   chmaps |-> VIRTIO_SND_CHMAP_MAX_SIZE]
    /\ pc = "idle"

\* C14: realize succeeds exactly when jacks <= 8, 1 <= streams <= 10 and
\* chmaps <= the channel-map maximum; for every other configuration it
\* fails with an error, adds no virtqueue and applies no default SET_PARAMS
\* or PREPARE (every slot of both tables is still null).
C14_RealizeIffValid ==
    [][ pc = "unrealized"
        => /\ pc' = "idle" <=> ValidConfiguration(snd_conf)
           /\ ~ValidConfiguration(snd_conf)
                => /\ pc' = "failed"
                   /\ ~queues'
                   /\ \A i \in DOMAIN pcm_params' : pcm_params'[i] = NULL
                   /\ \A i \in DOMAIN streams' : streams'[i] = NULL ]_vars

\* Realize of a device with 11 streams has failed.
C14_Witness ==
    /\ lastOp = "realize_failed"
    /\ snd_conf = [jacks |-> 0, streams |-> 11, chmaps |-> 0]
    /\ pc = "failed"
    /\ ~queues

\* -------------------------------------------------------- PCM_INFO
\* The reply buffer that holds the header and n info records.
InfoReplyLen(n) == SIZEOF_HDR + n * SIZEOF_PCM_INFO

\* PCM_INFO for ranges inside the streams of the device, ending past them,
\* starting past them, and for start ids 2^31 - 1 and 2^32 - 1, the last
\* with counts that carry start_id + count over 2^32; and one with a reply
\* buffer of the header alone.
InfoMenu ==
    { ReqInfo(0, 1, InfoReplyLen(1)),
      ReqInfo(0, 2, InfoReplyLen(2)),
      ReqInfo(1, 1, InfoReplyLen(1)),
      ReqInfo(0, 3, InfoReplyLen(3)),
      ReqInfo(2, 1, InfoReplyLen(1)),
      ReqInfo(0, 0, InfoReplyLen(0)),
      ReqInfo(2147483647, 1, InfoReplyLen(1)),
      ReqInfo(U32Sub(0, 1), 1, InfoReplyLen(1)),
      ReqInfo(U32Sub(0, 1), 2, InfoReplyLen(2)),
      ReqInfo(0, 1, InfoReplyLen(0)) }

NextInfo == NextOver(InfoMenu, MaxInfoReqs)

SpecInfo == Init /\ [][NextInfo]_vars

\* [start_id, start_id + count) lies inside [0, n), the bounds taken as
\* the unsigned numbers they are (a negative value stands for one of 2^31
\* or more, beyond every stream count).
RangeInside(start_id, count, n) ==
    \/ count = 0
    \/ /\ start_id >= 0
       /\ count > 0
       /\ start_id < n
       /\ count <= n - start_id

\* C15: a PCM_INFO request whose range [start_id, start_id + count) is not
\* contained in [0, stream count) is answered BAD_MSG and no info record,
\* whole or partial, is written behind the response header; so too when
\* start_id + count wraps around 2^32.
C15_InfoOutOfRangeRejected ==
    [][ ( /\ Ran("pcm_info", SIZEOF_QUERY_INFO)
          /\ ~RangeInside(query_info_start_id(Ran_req),
                          query_info_count(Ran_req), snd_conf.streams) )
        => /\ Ran_entry.sent
           /\ Ran_entry.code = VIRTIO_SND_S_BAD_MSG
           /\ Ran_entry.info = << >>
           /\ Ran_entry.info_bytes = 0 ]_vars

\* ---------------------------------------------------------- reset
\* virtio_snd_handle_ctrl step by step, for a reset that runs in another
\* context.  One iteration of its pop loop (lines 1203-1210): a request is
\* popped and appended; no lock is held.
CtrlPop(menu, cap) ==
    /\ fault = "none"
    /\ pc \in {"idle", "popping"}
    /\ nreq < cap
    /\ \E req \in menu :
         cmdq' = Enqueue(cmdq, << [h |-> nreq + 1, req |-> req] >>)
    /\ nreq' = nreq + 1
    /\ pc' = "popping"
    /\ lastOp' = "ctrl_pop"
    /\ UNCHANGED << teardown, snd_conf, pcm_params, streams, processing_cmdq,
                    cmdq_mutex, queues, config, broken, fault, log, discarded >>

\* The pop loop has ended: the call of virtio_snd_process_cmdq (line 1213).
CtrlDrain ==
    /\ fault = "none"
    /\ pc \in {"popping", "drain_popping"}
    /\ LET e == ProcessCmdqEntry(processing_cmdq, cmdq_mutex) IN
         /\ processing_cmdq' = (processing_cmdq \/ e = "enter")
         /\ cmdq_mutex' = (cmdq_mutex \/ e = "enter")
         /\ pc' = CASE e = "enter" -> "drain"
                    [] e = "deadlock" -> "hung"
                    [] pc = "drain_popping" -> "drain"
                    [] OTHER -> "idle"
    /\ lastOp' = "handle_ctrl"
    /\ UNCHANGED << teardown, snd_conf, pcm_params, streams, cmdq, queues, config, broken,
                    fault, nreq, log, discarded >>

\* A stub request, SET_PARAMS with other values than the defaults, PREPARE
\* and START, all for stream 0.
ResetMenu ==
    { ReqHdrOnly(VIRTIO_SND_R_JACK_INFO),
      ReqSetParamsOf(0, 1, VIRTIO_SND_PCM_FMT_U8, VIRTIO_SND_PCM_RATE_5512),
      ReqStream(VIRTIO_SND_R_PCM_PREPARE, 0),
      ReqStream(VIRTIO_SND_R_PCM_START, 0) }

NextReset ==
    \/ CtrlPop(ResetMenu, MaxResetReqs)
    \/ CtrlDrain
    \/ DrainStep
    \/ DrainEnd
    \/ Reset
    \/ SetConfig

SpecReset == Init /\ [][NextReset]_vars

\* C16: reset empties the pending queue and answers none of the requests
\* it discards: the reset step delivers no response and leaves the queue
\* empty, and no discarded request is ever answered.
C16_ResetDiscardsUnanswered ==
    [][ /\ lastOp' = "reset"
          => /\ cmdq' = << >>
             /\ log' = log
             /\ discarded' = discarded \cup Handles(cmdq)
        /\ \A i \in 1 .. Len(log') : log'[i].h \notin discarded' ]_vars

\* A reset has discarded a queued request, and a request submitted after
\* it has been answered.
C16_Witness ==
    /\ discarded # {}
    /\ \E i \in 1 .. Len(log) :
         /\ Sent(i)
         /\ \A h \in discarded : h < log[i].h

\* C17: reset changes nothing but the pending queue: the StreamParams and
\* the Stream of every id, the configuration block and the in-progress
\* flag are after the reset what they were before it.
C17_ResetFrame ==
    [][ lastOp' = "reset"
        => /\ pcm_params' = pcm_params
           /\ streams' = streams
           /\ snd_conf' = snd_conf
           /\ processing_cmdq' = processing_cmdq ]_vars

\* A reset has discarded a request on a device whose stream 0 has been
\* given other parameters than the defaults and prepared again with them.
C17_Witness ==
    /\ lastOp = "reset"
    /\ discarded # {}
    /\ pcm_params[0].channels = 1
    /\ streams[0].as.nchannels = 1

\* ------------------------------------------------- error propagation
\* Log entry i is an error answer: BAD_MSG or NOT_SUPP was delivered.
ErrorAnswer(i) ==
    /\ Sent(i)
    /\ log[i].code \in {VIRTIO_SND_S_BAD_MSG, VIRTIO_SND_S_NOT_SUPP}

\* C18: no per-request error terminates the device: once a request has
\* been answered BAD_MSG or NOT_SUPP (SET_PARAMS with an out-of-range id
\* and RELEASE of an id without a Stream among them) the device is still
\* not marked broken (needing a reset), and the requests after it are
\* processed.
C18_ErrorsLeaveDeviceUsable ==
    (\E i \in 1 .. Len(log) : ErrorAnswer(i)) => ~broken

\* --------------------------------------------------- configuration space
\* 32-bit values written to the fields: small ones, the limits of realize
\* and the ends of the signed and unsigned ranges.
ConfigWords == {0, 1, 11, 2147483647, U32Sub(0, 1)}

ConfigBlocks == [jacks : ConfigWords, streams : ConfigWords, chmaps : ConfigWords]

ConfigMenu == { ReqStream(VIRTIO_SND_R_PCM_START, 0) }

NextConfig ==
    \/ SetConfigOver(ConfigBlocks)
    \/ GetConfig
    \/ HandleCtrl(ConfigMenu, MaxConfigReqs)
    \/ DrainStep
    \/ DrainEnd
    \/ Reset

SpecConfig == Init /\ [][NextConfig]_vars

\* C19: a configuration write of any block {jacks, streams, chmaps} of
\* 32-bit values, valid for realize or not, followed by a configuration
\* read returns exactly the bytes written; the write validates nothing:
\* it stores the block as it is and neither fails nor breaks the device.
C19_ConfigRoundTrip ==
    [][ /\ (lastOp = "set_config" /\ lastOp' = "get_config")
           => config' = config
        /\ lastOp' = "set_config"
           => /\ BlockBytes(snd_conf') = config'
              /\ fault' = "none"
              /\ broken' = broken ]_vars

\* A block realize would refuse has been written and read back.
C19_Witness ==
    /\ lastOp = "get_config"
    /\ ~ConfigValid(snd_conf)
    /\ snd_conf.streams = U32Sub(0, 1)
    /\ snd_conf.jacks = 11
    /\ config = BlockBytes(snd_conf)

\* -------------------------------------------------------- short bodies
\* The size of the record each PCM handler copies from the request.
RecordSize(handler) ==
    CASE handler = "pcm_info" -> SIZEOF_QUERY_INFO
      [] handler = "pcm_set_params" -> SIZEOF_SET_PARAMS
      [] OTHER -> SIZEOF_PCM_HDR

PcmHandlers ==
    {"pcm_info", "pcm_set_params", "pcm_prepare", "pcm_start", "pcm_stop",
     "pcm_release"}

\* A request cut after out_len bytes; the bytes present carry the values of
\* a SET_PARAMS, the count of a PCM_INFO and the given stream id.
ReqCut(code, id, out_len) ==
    Req(out_len, 4 + SIZEOF_PCM_INFO, code, id, 1, SIZEOF_PCM_INFO, 1, 1,
        VIRTIO_SND_PCM_FMT_U8, VIRTIO_SND_PCM_RATE_5512)

\* Every PCM request with the header alone and with one byte less than its
\* record, for stream 0 and for an id outside the tables; SET_PARAMS and
\* PCM_INFO also cut after the stream id; and whole requests for stream 0.
ShortMenu ==
    { ReqCut(code, id, len) :
        code \in {VIRTIO_SND_R_PCM_PREPARE, VIRTIO_SND_R_PCM_START,
                  VIRTIO_SND_R_PCM_STOP, VIRTIO_SND_R_PCM_RELEASE},
        id \in {0, MaxStreams + 1},
        len \in {SIZEOF_HDR, SIZEOF_PCM_HDR - 1} }
    \cup { ReqCut(VIRTIO_SND_R_PCM_INFO, id, len) :
             id \in {0, MaxStreams + 1},
             len \in {SIZEOF_HDR, SIZEOF_PCM_HDR, SIZEOF_QUERY_INFO - 1} }
    \cup { ReqCut(VIRTIO_SND_R_PCM_SET_PARAMS, id, len) :
             id \in {0, MaxStreams + 1},
             len \in {SIZEOF_HDR, SIZEOF_PCM_HDR, SIZEOF_SET_PARAMS - 1} }
    \cup { ReqCut(VIRTIO_SND_R_PCM_SET_PARAMS, 0, SIZEOF_SET_PARAMS),
           ReqCut(VIRTIO_SND_R_PCM_RELEASE, 0, SIZEOF_PCM_HDR),
           ReqCut(VIRTIO_SND_R_PCM_INFO, 0, SIZEOF_QUERY_INFO) }

NextShort == NextOver(ShortMenu, MaxShortReqs)

SpecShort == Init /\ [][NextShort]_vars

\* This step ran a PCM handler on a request that has the whole header and
\* less than the handler's record.
RanShort ==
    /\ Len(log') = Len(log) + 1
    /\ Ran_entry.handler \in PcmHandlers
    /\ Ran_req.out_len >= SIZEOF_HDR
    /\ Ran_req.out_len < RecordSize(Ran_entry.handler)

\* C20: a PCM request (PCM_INFO, SET_PARAMS, PREPARE, START, STOP, RELEASE)
\* whose body is shorter than the record its handler expects is answered
\* BAD_MSG; whatever the bytes present say, the handler uses none of them:
\* no StreamParams and no Stream changes, nothing is dereferenced and the
\* device is not marked broken.
C20_ShortBodyRejected ==
    [][ RanShort
        => /\ Ran_entry.sent
           /\ Ran_entry.code = VIRTIO_SND_S_BAD_MSG
           /\ Ran_entry.info_bytes = 0
           /\ pcm_params' = pcm_params
           /\ streams' = streams
           /\ fault' = "none"
           /\ broken' = broken ]_vars

\* A SET_PARAMS one byte short of its record and a RELEASE cut inside the
\* stream id have both been answered BAD_MSG, and stream 0 still exists.
C20_Witness ==
    /\ \E i \in 1 .. Len(log) :
         /\ log[i].handler = "pcm_set_params"
         /\ log[i].req.out_len = SIZEOF_SET_PARAMS - 1
         /\ log[i].code = VIRTIO_SND_S_BAD_MSG
         /\ Sent(i)
    /\ \E i \in 1 .. Len(log) :
         /\ log[i].handler = "pcm_release"
         /\ log[i].req.out_len = SIZEOF_PCM_HDR - 1
         /\ log[i].code = VIRTIO_SND_S_BAD_MSG
         /\ Sent(i)
    /\ HasStream(0)

\* ------------------------------------------------------ two contexts
\* The outcomes of QTAILQ_INSERT_TAIL run by one context while another is
\* inside the locked loop of virtio_snd_process_cmdq: the accesses to the
\* list are not ordered, so the element is linked in or the list is damaged.
RacingInsert(q, cmd) ==
    { [cmdq |-> Enqueue(q, << cmd >>), fault |-> "none"],
      [cmdq |-> q, fault |-> "segv"] }

\* One iteration of the pop loop of virtio_snd_handle_ctrl (lines
\* 1203-1210) in a context other than the one draining: the append takes
\* no lock, so it does not wait for the drain pass to leave.
CtrlPopDuringDrain(menu, cap) ==
    /\ fault = "none"
    /\ pc \in {"drain", "drain_popping"}
    /\ nreq < cap
    /\ \E req \in menu :
         \E o \in RacingInsert(cmdq, [h |-> nreq + 1, req |-> req]) :
             /\ cmdq' = o.cmdq
             /\ fault' = o.fault
    /\ nreq' = nreq + 1
    /\ pc' = "drain_popping"
    /\ lastOp' = "ctrl_pop"
    /\ UNCHANGED << teardown, snd_conf, pcm_params, streams, processing_cmdq,
                    cmdq_mutex, queues, config, broken, log, discarded >>

NextMutex ==
    \/ CtrlPop(ResetMenu, MaxMutexReqs)
    \/ CtrlPopDuringDrain(ResetMenu, MaxMutexReqs)
    \/ CtrlDrain
    \/ DrainStep
    \/ DrainEnd
    \/ Reset
    \/ SetConfig

SpecMutex == Init /\ [][NextMutex]_vars

NestedCap == IF pc = "idle" THEN 1 ELSE MaxNestedReqs

NextNested == NextOver(EngineMenu, NestedCap)

SpecNested == Init /\ [][NextNested]_vars

\* Request h has been handed to process_cmd.
Handled(h) == \E i \in 1 .. Len(log) : log[i].h = h

\* C22: whenever no notification handler, drain pass or reset is
\* executing, the pending queue is empty and the in-progress flag is false;
\* a request appended by a notification nested in a drain pass is
\* processed by that pass before it clears the flag: when the pass ends,
\* every request submitted so far has been processed or discarded.
C22_IdleQueueEmpty ==
    [][ /\ pc' = "idle" => cmdq' = << >> /\ ~processing_cmdq'
        /\ lastOp' = "drain_end"
             => /\ processing_cmdq /\ ~processing_cmdq'
                /\ cmdq = << >>
                /\ \A h \in 1 .. nreq : Handled(h) \/ h \in discarded ]_vars

\* The pass that started with request 1 has ended after processing
\* requests that nested notifications appended.
C22_Witness ==
    /\ lastOp = "drain_end"
    /\ pc = "idle"
    /\ nreq = MaxNestedReqs
    /\ \A h \in 1 .. nreq : Handled(h)

\* ------------------------------------------------- one request at a time
\* Log entries i and i + 1 are a SET_PARAMS and a PREPARE for stream id, both
\* answered OK.
SetParamsThenPrepare(i, id) ==
    /\ Answered(i, "pcm_set_params", id)
    /\ log[i].req.out_len >= SIZEOF_SET_PARAMS
    /\ log[i].code = VIRTIO_SND_S_OK
    /\ Answered(i + 1, "pcm_prepare", id)
    /\ log[i + 1].code = VIRTIO_SND_S_OK

\* The last two log entries are such a pair for stream id.
LastPair(id) == Len(log) >= 2 /\ SetParamsThenPrepare(Len(log) - 1, id)

\* C23: requests are handled one at a time: when a handler starts, the
\* response of every request handled before it has been delivered, each step
\* of the pass handles the head of the queue alone, and the next request
\* sees the changes of the one before: a PREPARE answered right after a
\* SET_PARAMS for the same id has built its Stream from the values of that
\* SET_PARAMS.
C23_OneAtATime ==
    [][ /\ \A i \in 1 .. Len(log) :
             (FullHeader(i) /\ log[i].fault = "none") => Sent(i)
        /\ lastOp' = "drain_step"
             => /\ Len(log') = Len(log) + 1
                /\ Ran_entry.h = Head(cmdq).h
                /\ Len(cmdq') >= Len(cmdq) - 1
                /\ \A id \in DOMAIN streams' :
                     LastPair(id)'
                     => LET new == DecodeSetParams(log[Len(log)].req) IN
                        /\ streams'[id] # NULL
                        /\ streams'[id].buffer_bytes = new.buffer_bytes
                        /\ streams'[id].period_bytes = new.period_bytes
                        /\ streams'[id].as
                             = virtio_snd_get_qemu_audsettings(new) ]_vars

\* SET_PARAMS with other values than the defaults and PREPARE, both for
\* stream 0, have been answered OK one right after the other, and the
\* Stream holds the buffer size of that SET_PARAMS.
C23_Witness ==
    /\ Len(log) = 2
    /\ nreq = 2
    /\ SetParamsThenPrepare(1, 0)
    /\ pc = "drain"
    /\ cmdq = << >>
    /\ SixOfReq(log[1].req) # SixOf(DefaultParams(0))
    /\ streams[0].buffer_bytes = set_params_buffer_bytes(log[1].req)

\* ------------------------------------------------------ table indices
\* START, STOP and RELEASE for the ids up to one past the largest stream
\* count a configuration write sets, and PCM_INFO for one stream at each of
\* those ids.  (SET_PARAMS and PREPARE index past the tables without any
\* configuration write; they have the PCM specification.)
TableMenu ==
    { ReqStream(code, id) :
        code \in {VIRTIO_SND_R_PCM_START, VIRTIO_SND_R_PCM_STOP,
                  VIRTIO_SND_R_PCM_RELEASE},
        id \in 0 .. MaxStreams + 1 }
    \cup { ReqInfo(id, 1, InfoReplyLen(1)) : id \in 0 .. MaxStreams + 1 }

NextTable == NextOver(TableMenu, MaxTableReqs)

SpecTable == Init /\ [][NextTable]_vars

\* The stream count the tables were allocated with at realize.
AllocatedStreams == Cardinality(DOMAIN streams)

\* C24: every access a handler makes to the params table or the Stream
\* table, after any requests and configuration writes, has an index below
\* the stream count the tables were allocated with: a request whose id (or
\* whose PCM_INFO range) is not inside the tables is answered BAD_MSG
\* without any access outside them, so with no other answer and no fault.
C24_TableIndexInRange ==
    [][ /\ ( /\ Len(log') = Len(log) + 1
             /\ Ran_entry.handler \in PcmHandlers \ {"pcm_info"}
             /\ Ran_req.out_len >= RecordSize(Ran_entry.handler)
             /\ Ran_id \notin DOMAIN streams )
           => /\ fault' = "none"
              /\ Ran_entry.sent
              /\ Ran_entry.code = VIRTIO_SND_S_BAD_MSG
        /\ ( /\ Ran("pcm_info", SIZEOF_QUERY_INFO)
             /\ ~RangeInside(query_info_start_id(Ran_req),
                             query_info_count(Ran_req), AllocatedStreams) )
           => /\ fault' = "none"
              /\ Ran_entry.sent
              /\ Ran_entry.code = VIRTIO_SND_S_BAD_MSG ]_vars

\* ------------------------------------------------------ after RELEASE
\* Log entry j is a PCM_INFO answered for a range that includes stream id.
InfoCovers(j, id) ==
    /\ log[j].handler = "pcm_info"
    /\ log[j].req.out_len >= SIZEOF_QUERY_INFO
    /\ Sent(j)
    /\ ~U32Lt(id, query_info_start_id(log[j].req))
    /\ U32Lt(U32Sub(id, query_info_start_id(log[j].req)),
             query_info_count(log[j].req))

\* C25: after a RELEASE answered OK for a stream id the id has no Stream
\* until the next successful PREPARE on it: a START, a STOP or a PCM_INFO
\* covering the id that is answered after the RELEASE, with no PREPARE for
\* the id in between, is answered BAD_MSG, and once the RELEASE has been
\* answered the Stream table holds no Stream for the id.
C25_ReleasedIdHasNoStream ==
    \A id \in DOMAIN streams :
      \A i \in 1 .. Len(log) :
        ( /\ Answered(i, "pcm_release", id)
          /\ log[i].code = VIRTIO_SND_S_OK
          /\ \A k \in (i + 1) .. Len(log) : log[k].handler # "pcm_prepare" )
        => /\ streams[id] = NULL
           /\ \A j \in (i + 1) .. Len(log) :
                ( \/ Answered(j, "pcm_start", id)
                  \/ Answered(j, "pcm_stop", id)
                  \/ InfoCovers(j, id) )
                => log[j].code = VIRTIO_SND_S_BAD_MSG

\* ------------------------------------------------- RELEASE and params
\* SET_PARAMS for stream 0 with supported values other than the defaults
\* and with a channel count of 0, RELEASE for stream 0, for stream 1 and
\* for an id past every table, PREPARE for stream 0.
ReleaseMenu ==
    { ReqSetParamsOf(0, 1, VIRTIO_SND_PCM_FMT_U8, VIRTIO_SND_PCM_RATE_5512),
      ReqSetParams(0, 1024, 512, 0, 0, VIRTIO_SND_PCM_FMT_S16,
                   VIRTIO_SND_PCM_RATE_44100),
      ReqStream(VIRTIO_SND_R_PCM_RELEASE, 0),
      ReqStream(VIRTIO_SND_R_PCM_RELEASE, 1),
      ReqStream(VIRTIO_SND_R_PCM_RELEASE, MaxStreams + 2),
      ReqStream(VIRTIO_SND_R_PCM_PREPARE, 0) }

NextRelease == NextOver(ReleaseMenu, MaxReleaseReqs)

SpecRelease == Init /\ [][NextRelease]_vars

\* A RELEASE for stream id has been handled and no SET_PARAMS for the id
\* since.
ReleasedSinceSetParams(id) ==
    \E i \in 1 .. Len(log) :
        /\ log[i].handler = "pcm_release"
        /\ log[i].req.out_len >= SIZEOF_PCM_HDR
        /\ pcm_hdr_stream_id(log[i].req) = id
        /\ \A k \in (i + 1) .. Len(log) :
             ~( /\ log[k].handler = "pcm_set_params"
                /\ pcm_hdr_stream_id(log[k].req) = id )

\* The Stream is the one PREPARE builds from the StreamParams st.
BuiltFrom(stream, st) ==
    /\ stream # NULL
    /\ stream.buffer_bytes = st.buffer_bytes
    /\ stream.period_bytes = st.period_bytes
    /\ stream.as = virtio_snd_get_qemu_audsettings(st)
    /\ stream.channels_max = Min(AUDIO_MAX_CHANNELS, st.channels)

\* C26: RELEASE preserves the StreamParams: a RELEASE, answered OK or not,
\* leaves the params of every id as they were, and a PREPARE for a valid id
\* handled after a RELEASE of the id with no SET_PARAMS in between is
\* answered OK and builds the Stream from the params the id had kept.
C26_ReleaseKeepsParams ==
    [][ /\ Ran("pcm_release", SIZEOF_PCM_HDR) => pcm_params' = pcm_params
        /\ ( /\ Ran("pcm_prepare", SIZEOF_PCM_HDR)
             /\ ValidId(Ran_id)
             /\ ReleasedSinceSetParams(Ran_id) )
           => /\ Ran_entry.sent
              /\ Ran_entry.code = VIRTIO_SND_S_OK
              /\ pcm_params' = pcm_params
              /\ BuiltFrom(streams'[Ran_id], pcm_params[Ran_id]) ]_vars

\* SET_PARAMS with other values than the defaults, RELEASE and PREPARE for
\* stream 0 have been answered OK in this order, and the Stream holds the
\* values of the SET_PARAMS.
C26_Witness ==
    /\ Len(log) = 3
    /\ Answered(1, "pcm_set_params", 0) /\ log[1].code = VIRTIO_SND_S_OK
    /\ Answered(2, "pcm_release", 0) /\ log[2].code = VIRTIO_SND_S_OK
    /\ Answered(3, "pcm_prepare", 0) /\ log[3].code = VIRTIO_SND_S_OK
    /\ SixOf(pcm_params[0]) = SixOfReq(log[1].req)
    /\ SixOf(pcm_params[0]) # SixOf(DefaultParams(0))
    /\ BuiltFrom(streams[0], pcm_params[0])

\* ------------------------------------------------------------ PREPARE
\* SET_PARAMS for streams 0 and 1 with the smallest and the largest channel
\* count, format and rate the device supports, and PREPARE for both.
PrepareMenu ==
    { ReqSetParams(0, 4096, 2048, 1, 1, VIRTIO_SND_PCM_FMT_U8,
                   VIRTIO_SND_PCM_RATE_5512),
      ReqSetParams(0, 1024, 512, 0, AUDIO_MAX_CHANNELS,
                   VIRTIO_SND_PCM_FMT_FLOAT, VIRTIO_SND_PCM_RATE_384000),
      ReqSetParams(1, 1024, 512, 0, AUDIO_MAX_CHANNELS,
                   VIRTIO_SND_PCM_FMT_FLOAT, VIRTIO_SND_PCM_RATE_384000),
      ReqStream(VIRTIO_SND_R_PCM_PREPARE, 0),
      ReqStream(VIRTIO_SND_R_PCM_PREPARE, 1) }

NextPrepare == NextOver(PrepareMenu, MaxPrepareReqs)

SpecPrepare == Init /\ [][NextPrepare]_vars

\* C27: a PREPARE answered OK for a valid id leaves in the id's slot of the
\* Stream table one Stream, in place of the one that was there, with the
\* id, channels_min = 1, channels_max = min(AUDIO_MAX_CHANNELS, stored
\* channels), the stored buffer and period bytes and the audio settings of
\* the stored format and rate; the Streams of the other ids and all stored
\* StreamParams are unchanged.
C27_PrepareBuildsFromParams ==
    [][ ( /\ Ran("pcm_prepare", SIZEOF_PCM_HDR)
          /\ ValidId(Ran_id)
          /\ Ran_entry.sent
          /\ Ran_entry.code = VIRTIO_SND_S_OK )
        => /\ pcm_params' = pcm_params
           /\ DOMAIN streams' = DOMAIN streams
           /\ \A j \in DOMAIN streams \ {Ran_id} : streams'[j] = streams[j]
           /\ LET stream == streams'[Ran_id]
                  st == pcm_params[Ran_id]
              IN  /\ stream # NULL
                  /\ stream.id = Ran_id
                  /\ stream.channels_min = 1
                  /\ stream.channels_max = Min(AUDIO_MAX_CHANNELS, st.channels)
                  /\ stream.buffer_bytes = st.buffer_bytes
                  /\ stream.period_bytes = st.period_bytes
                  /\ stream.as.nchannels = stream.channels_max
                  /\ stream.as.fmt = virtio_snd_get_qemu_format(st.format)
                  /\ stream.as.fmt # "assert"
                  /\ st.rate \in supported_rates
                  /\ stream.as.freq = RateHz[st.rate + 1]
                  /\ stream.desired_as = stream.as ]_vars

\* PREPARE for stream 0 has replaced the Stream realize built from the
\* defaults by one built from one channel, U8 and 5512 Hz.
C27_Witness ==
    /\ lastOp = "drain_step"
    /\ Answered(Len(log), "pcm_prepare", 0)
    /\ log[Len(log)].code = VIRTIO_SND_S_OK
    /\ streams[0] # NULL
    /\ streams[0].channels_max = 1
    /\ streams[0].as = [nchannels |-> 1, fmt |-> "U8", freq |-> 5512]
    /\ streams[0].buffer_bytes = 4096
    /\ streams[0].period_bytes = 2048

\* -------------------------------------------------- direction is fixed
\* C28: the direction of a stream id is not guest-configurable: whatever
\* control request or configuration write the guest makes, an id that has
\* a Stream before and after the step, the same one or one a PREPARE has
\* built anew, has the same direction before and after.
C28_DirectionFixed ==
    [][ \A id \in DOMAIN streams :
          (streams[id] # NULL /\ streams'[id] # NULL)
          => streams'[id].direction = streams[id].direction ]_vars

\* ------------------------------------------------ PCM_INFO size field
\* PCM_INFO for one and for two streams from stream 0 on, with a size field
\* of 0, 1, the record size and twice the record size, and with a reply
\* buffer that holds the header alone, one byte less than one record, one
\* record, and two records.
InfoSizeMenu ==
    { Req(SIZEOF_QUERY_INFO, in_len, VIRTIO_SND_R_PCM_INFO, 0, count, size,
          0, 0, 0, 0) :
        count \in 1 .. 2,
        size \in {0, 1, SIZEOF_PCM_INFO, 2 * SIZEOF_PCM_INFO},
        in_len \in {SIZEOF_HDR, InfoReplyLen(1) - 1, InfoReplyLen(1),
                    InfoReplyLen(2)} }

NextInfoSize == NextOver(InfoSizeMenu, MaxInfoSizeReqs)

SpecInfoSize == Init /\ [][NextInfoSize]_vars

\* C29: PCM_INFO is answered BAD_MSG, and no record is copied, whenever the
\* reply buffer is smaller than the response header plus count records of
\* the fixed record size, whatever the size field of the request says.
C29_SmallReplyRejected ==
    [][ ( /\ Ran("pcm_info", SIZEOF_QUERY_INFO)
          /\ Ran_req.in_len < InfoReplyLen(query_info_count(Ran_req)) )
        => /\ Ran_entry.sent
           /\ Ran_entry.code = VIRTIO_SND_S_BAD_MSG
           /\ Ran_entry.info_bytes = 0 ]_vars

\* ------------------------------------------------- PCM_INFO records
\* The records of the streams start_id .. start_id + count - 1.
ExpectedInfo(start_id, count) ==
    [k \in 1 .. count |-> InfoRecord(streams[start_id + k - 1])]

\* C30: a PCM_INFO request whose range lies inside the streams of the
\* device, each with a Stream, and whose reply buffer holds the header and
\* count records is answered OK with exactly count records right behind the
\* header, record k describing stream start_id + k; building the reply
\* writes no record slot outside the count slots allocated (no fault), also
\* when start_id > 0.
C30_InfoRecords ==
    [][ ( /\ Ran("pcm_info", SIZEOF_QUERY_INFO)
          /\ query_info_size(Ran_req) = SIZEOF_PCM_INFO
          /\ query_info_start_id(Ran_req) >= 0
          /\ query_info_count(Ran_req) >= 0
          /\ RangeInside(query_info_start_id(Ran_req),
                         query_info_count(Ran_req), snd_conf.streams)
          /\ RangeInside(query_info_start_id(Ran_req),
                         query_info_count(Ran_req), AllocatedStreams)
          /\ \A k \in 1 .. query_info_count(Ran_req) :
               streams[query_info_start_id(Ran_req) + k - 1] # NULL
          /\ Ran_req.in_len >= InfoReplyLen(query_info_count(Ran_req)) )
        => /\ fault' = "none"
           /\ Ran_entry.sent
           /\ Ran_entry.code = VIRTIO_SND_S_OK
           /\ Ran_entry.info = ExpectedInfo(query_info_start_id(Ran_req),
                                            query_info_count(Ran_req))
           /\ Ran_entry.info_bytes
                = SIZEOF_PCM_INFO * query_info_count(Ran_req) ]_vars

\* ------------------------------------------------------ lifecycle state
\* The lifecycle state the device holds for a slot of the Stream table: no
\* Stream; a Stream whose host voice is open and active (running); a Stream
\* with no active voice (prepared or stopped).
LifecycleState(stream) ==
    IF stream = NULL THEN "none"
    ELSE IF stream.voice # NULL THEN "running"
    ELSE "idle"

\* C31: the lifecycle of a stream id follows the state machine: a START
\* answered OK leaves the Stream of the id running, a STOP answered OK
\* leaves it not running, a RELEASE answered OK leaves the id without a
\* Stream, and a step that handles no START, STOP, PREPARE or RELEASE for
\* the id leaves its state as it is.
C31_LifecycleStateMachine ==
    [][ /\ ( /\ Ran("pcm_start", SIZEOF_PCM_HDR)
             /\ HasStream(Ran_id)
             /\ Ran_entry.code = VIRTIO_SND_S_OK )
           => LifecycleState(streams'[Ran_id]) = "running"
        /\ ( /\ Ran("pcm_stop", SIZEOF_PCM_HDR)
             /\ HasStream(Ran_id)
             /\ Ran_entry.code = VIRTIO_SND_S_OK )
           => LifecycleState(streams'[Ran_id]) = "idle"
        /\ ( /\ Ran("pcm_release", SIZEOF_PCM_HDR)
             /\ HasStream(Ran_id)
             /\ Ran_entry.code = VIRTIO_SND_S_OK )
           => LifecycleState(streams'[Ran_id]) = "none"
        /\ \A id \in DOMAIN streams :
             ~( /\ Len(log') = Len(log) + 1
                /\ Ran_entry.handler \in {"pcm_start", "pcm_stop",
                                          "pcm_prepare", "pcm_release"} )
             => LifecycleState(streams'[id]) = LifecycleState(streams[id])
      ]_vars

\* ------------------------------------------------ configuration frame
\* C32: the configuration block {jacks, streams, chmaps} changes only by a
\* guest configuration write: no step that handles a control request of
\* any code, starts or ends a drain pass or resets the device changes it.
C32_ConfigOnlyByWrite ==
    [][ snd_conf' # snd_conf => lastOp' = "set_config" ]_vars

\* Requests have been answered OK, NOT_SUPP and BAD_MSG and the device has
\* been reset, no configuration write was ever made, and the block is the
\* one of realize.
C32_Witness ==
    /\ lastOp = "reset"
    /\ config = ZeroConfigSpace
    /\ snd_conf \in InitConfigs
    /\ \E i \in 1 .. Len(log) : Sent(i) /\ log[i].code = VIRTIO_SND_S_OK
    /\ \E i \in 1 .. Len(log) : Sent(i) /\ log[i].code = VIRTIO_SND_S_BAD_MSG

\* ------------------------------------------------------ stored values
\* C33: the StreamParams stored for any id always hold a channel count in
\* 1 .. AUDIO_MAX_CHANNELS, a supported format and a supported rate,
\* whatever SET_PARAMS requests were accepted or rejected; so the format
\* and rate conversions of PREPARE never reach g_assert_not_reached().
C33_StoredParamsSupported ==
    /\ \A id \in DOMAIN pcm_params :
         pcm_params[id] # NULL
         => /\ pcm_params[id].channels \in 1 .. AUDIO_MAX_CHANNELS
            /\ pcm_params[id].format \in supported_formats
            /\ pcm_params[id].rate \in supported_rates
    /\ fault # "abort"

\* ------------------------------------------------------------ teardown
\* virtio_snd_pcm_close (lines 926-932) on a Stream freed n times so far:
\* the Stream is freed.
virtio_snd_pcm_close(n) == n + 1

\* g_free (line 1387) of a Stream freed n times so far.  Freeing a freed
\* block is undefined: the allocator aborts, or the process goes on.
g_free(n) ==
    IF n = 0 THEN { [freed |-> 1, fault |-> "none"] }
    ELSE { [freed |-> n + 1, fault |-> "none"],
           [freed |-> n + 1, fault |-> "abort"] }

\* virtio_snd_unrealize up to the loop (lines 1375-1381): the control
\* virtqueue is deleted first.  Like reset it runs when no drain pass
\* holds the mutex.
UnrealizeBegin ==
    /\ fault = "none"
    /\ pc \in {"idle", "popping"}
    /\ ~cmdq_mutex
    /\ teardown' = [deleted |-> TRUE, i |-> 0,
                    had |-> { id \in DOMAIN streams : streams[id] # NULL },
                    freed |-> [id \in DOMAIN streams |-> 0]]
    /\ pc' = "unrealize"
    /\ lastOp' = "unrealize"
    /\ UNCHANGED << snd_conf, pcm_params, streams, cmdq, processing_cmdq,
                    cmdq_mutex, queues, config, broken, fault, nreq, log,
                    discarded >>

\* One iteration of the loop up to the call of virtio_snd_process_cmdq
\* (lines 1382-1385).  The bound is snd_conf.streams, so the load can fall
\* outside the table.
UnrealizeStream ==
    /\ fault = "none"
    /\ pc = "unrealize"
    /\ U32Lt(teardown.i, snd_conf.streams)
    /\ \E stream \in Load(streams, teardown.i) :
         LET e == ProcessCmdqEntry(processing_cmdq, cmdq_mutex) IN
           /\ fault' = IF stream \in {WILD, FAULT} THEN "segv" ELSE "none"
           /\ teardown' = IF stream = NULL
                          THEN [teardown EXCEPT !.i = U32Add(@, 1)]
                          ELSE teardown
           /\ processing_cmdq' =
                (processing_cmdq \/ (stream.tag = "stream" /\ e = "enter"))
           /\ cmdq_mutex' =
                (cmdq_mutex \/ (stream.tag = "stream" /\ e = "enter"))
           /\ pc' = CASE stream.tag # "stream" -> pc
                      [] e = "enter" -> "unrealize_drain"
                      [] e = "deadlock" -> "hung"
                      [] OTHER -> "unrealize_close"
    /\ lastOp' = "unrealize"
    /\ UNCHANGED << snd_conf, pcm_params, streams, cmdq, queues, config,
                    broken, nreq, log, discarded >>

\* The rest of the iteration (lines 1386-1387): virtio_snd_pcm_close frees
\* the Stream and g_free frees it again.
UnrealizeClose ==
    /\ fault = "none"
    /\ pc = "unrealize_close"
    /\ \E o \in g_free(virtio_snd_pcm_close(teardown.freed[teardown.i])) :
         /\ teardown' = [teardown EXCEPT !.freed[teardown.i] = o.freed,
                                         !.i = U32Add(@, 1)]
         /\ fault' = o.fault
    /\ pc' = "unrealize"
    /\ lastOp' = "unrealize"
    /\ UNCHANGED << snd_conf, pcm_params, streams, cmdq, processing_cmdq,
                    cmdq_mutex, queues, config, broken, nreq, log,
                    discarded >>

\* After the loop (lines 1390-1397): the tables are freed and s->pcm is
\* cleared.
UnrealizeEnd ==
    /\ fault = "none"
    /\ pc = "unrealize"
    /\ ~U32Lt(teardown.i, snd_conf.streams)
    /\ pcm_params' = << >>
    /\ streams' = << >>
    /\ pc' = "unrealized"
    /\ lastOp' = "unrealized"
    /\ UNCHANGED << teardown, snd_conf, cmdq, processing_cmdq, cmdq_mutex,
                    queues, config, broken, fault, nreq, log, discarded >>

NextTeardown ==
    \/ CtrlPop(LifecycleMenu, MaxTeardownReqs)
    \/ CtrlDrain
    \/ DrainStep
    \/ DrainEnd
    \/ SetConfig
    \/ UnrealizeBegin
    \/ UnrealizeStream
    \/ UnrealizeClose
    \/ UnrealizeEnd

SpecTeardown == Init /\ [][NextTeardown]_vars

\* C34: device teardown releases every existing Stream exactly once: no
\* Stream is ever freed twice, and when unrealize has returned every id
\* that had a Stream has had it freed and no id has a Stream any more,
\* whatever PREPARE and RELEASE requests came before.
C34_TeardownFreesOnce ==
    /\ \A id \in DOMAIN teardown.freed : teardown.freed[id] <= 1
    /\ lastOp = "unrealized"
       => /\ \A id \in teardown.had : teardown.freed[id] = 1
          /\ \A id \in DOMAIN streams : streams[id] = NULL

\* C35: at teardown no request is dispatched and no response is pushed
\* once the control virtqueue has been deleted: the requests still pending
\* are drained or discarded before the queue is removed.
C35_NoDispatchAfterDelete ==
    [][ teardown.deleted => log' = log ]_vars

\* ----------------------------------------------------------- isolation
\* For streams 0 and 1: an accepted and a rejected SET_PARAMS, PREPARE,
\* and START, STOP and RELEASE.
IsolationMenu ==
    { ReqSetParams(0, 4096, 2048, 1, 1, VIRTIO_SND_PCM_FMT_U8,
                   VIRTIO_SND_PCM_RATE_5512),
      ReqSetParams(1, 1024, 512, 0, 0, VIRTIO_SND_PCM_FMT_S16,
                   VIRTIO_SND_PCM_RATE_44100),
      ReqStream(VIRTIO_SND_R_PCM_PREPARE, 0),
      ReqStream(VIRTIO_SND_R_PCM_PREPARE, 1),
      ReqStream(VIRTIO_SND_R_PCM_START, 0),
      ReqStream(VIRTIO_SND_R_PCM_STOP, 1),
      ReqStream(VIRTIO_SND_R_PCM_RELEASE, 0) }

NextIsolation == NextOver(IsolationMenu, MaxIsolationReqs)

SpecIsolation == Init /\ [][NextIsolation]_vars

\* The handlers of the requests that carry one stream id.
StreamHandlers ==
    {"pcm_set_params", "pcm_prepare", "pcm_start", "pcm_stop", "pcm_release"}

\* C36: a SET_PARAMS, PREPARE, START, STOP or RELEASE request carrying
\* stream id i, whether it succeeds or fails, leaves the StreamParams and
\* the Stream of every other id j as they were.
C36_CrossStreamIsolation ==
    [][ \A h \in StreamHandlers :
          Ran(h, SIZEOF_PCM_HDR)
          => \A j \in DOMAIN pcm_params :
               j # Ran_id
               => /\ j \in DOMAIN pcm_params' /\ j \in DOMAIN streams'
                  /\ pcm_params'[j] = pcm_params[j]
                  /\ streams'[j] = streams[j] ]_vars

\* On a device with two streams, stream 0 has been given new parameters
\* and prepared with them and a SET_PARAMS for stream 1 has been rejected
\* after its first stores, and the two streams differ.
C36_Witness ==
    /\ snd_conf.streams = 2
    /\ \E i \in 1 .. Len(log) :
         Answered(i, "pcm_set_params", 0) /\ log[i].code = VIRTIO_SND_S_OK
    /\ \E i \in 1 .. Len(log) :
         Answered(i, "pcm_prepare", 0) /\ log[i].code = VIRTIO_SND_S_OK
    /\ \E i \in 1 .. Len(log) :
         /\ Answered(i, "pcm_set_params", 1)
         /\ log[i].code = VIRTIO_SND_S_NOT_SUPP
    /\ streams[0].channels_max = 1
    /\ IsDefaultStream(streams[1], 1)
    /\ pcm_params[0] # pcm_params[1]

\* C37: SET_PARAMS never changes an existing Stream: whether the request
\* is accepted or rejected, every Stream stays as its last PREPARE built
\* it, with its direction, buffer and period bytes, channel range and
\* audio settings.
C37_SetParamsKeepsStream ==
    [][ Ran("pcm_set_params", 0) => streams' = streams ]_vars

\* Stream 0 was prepared by a request and a later SET_PARAMS for it was
\* accepted: its StreamParams now hold one channel while the Stream still
\* has the channel range and the settings of the defaults.
C37_Witness ==
    /\ \E i \in 1 .. Len(log) : \E k \in 1 .. Len(log) :
         /\ i < k
         /\ Answered(i, "pcm_prepare", 0) /\ log[i].code = VIRTIO_SND_S_OK
         /\ Answered(k, "pcm_set_params", 0) /\ log[k].code = VIRTIO_SND_S_OK
    /\ log[Len(log)].handler = "pcm_set_params"
    /\ pcm_params[0].channels = 1
    /\ IsDefaultStream(streams[0], 0)

\* --------------------------------------------------- read-only requests
\* virtio_snd_handle_event (lines 1223-1227): a notification on the event
\* queue is logged as unimplemented.
HandleEvent ==
    /\ fault = "none"
    /\ pc = "idle"
    /\ lastOp' = "handle_event"
    /\ UNCHANGED << teardown, snd_conf, pcm_params, streams, cmdq,
                    processing_cmdq, cmdq_mutex, pc, queues, config, broken,
                    fault, nreq, log, discarded >>

\* virtio_snd_handle_xfer (line 1235): a notification on a transfer queue
\* does nothing.
HandleXfer ==
    /\ fault = "none"
    /\ pc = "idle"
    /\ lastOp' = "handle_xfer"
    /\ UNCHANGED << teardown, snd_conf, pcm_params, streams, cmdq,
                    processing_cmdq, cmdq_mutex, pc, queues, config, broken,
                    fault, nreq, log, discarded >>

\* An accepted SET_PARAMS for stream 0, and the requests that only read:
\* PCM_INFO, START and STOP for ids inside and outside the table, the jack
\* and channel-map requests and two codes the protocol does not define.
ReadOnlyMenu ==
    { ReqSetParams(0, 4096, 2048, 1, 1, VIRTIO_SND_PCM_FMT_U8,
                   VIRTIO_SND_PCM_RATE_5512),
      ReqInfo(0, 1, InfoReplyLen(1)),
      ReqStream(VIRTIO_SND_R_PCM_START, 0),
      ReqStream(VIRTIO_SND_R_PCM_STOP, MaxStreams + 1),
      ReqHdrOnly(VIRTIO_SND_R_JACK_INFO),
      ReqHdrOnly(VIRTIO_SND_R_JACK_REMAP),
      ReqHdrOnly(VIRTIO_SND_R_CHMAP_INFO),
      ReqHdrOnly(0),
      ReqHdrOnly(65535) }

NextReadOnly ==
    \/ NextOver(ReadOnlyMenu, MaxReadOnlyReqs)
    \/ HandleEvent
    \/ HandleXfer

SpecReadOnly == Init /\ [][NextReadOnly]_vars

\* The codes of the requests that may change the stream state.
WritingCodes ==
    {VIRTIO_SND_R_PCM_SET_PARAMS, VIRTIO_SND_R_PCM_PREPARE,
     VIRTIO_SND_R_PCM_RELEASE}

\* C38: PCM_INFO, START, STOP, JACK_INFO, JACK_REMAP, CHMAP_INFO and the
\* requests with an unrecognized code, and the notifications on the event
\* and transfer queues, change no StreamParams and create, destroy or
\* replace no Stream, whatever status they are answered with.
C38_ReadOnlyRequests ==
    [][ \/ Len(log') = Len(log) + 1 /\ hdr_code(Ran_req) \notin WritingCodes
        \/ lastOp' \in {"handle_event", "handle_xfer"}
        => pcm_params' = pcm_params /\ streams' = streams ]_vars

\* Stream 0 has been given parameters other than those its Stream was
\* built from, a START for it has then been answered OK and a request with
\* an undefined code BAD_MSG, and a transfer-queue notification came last.
C38_Witness ==
    /\ lastOp = "handle_xfer"
    /\ Len(log) = 3
    /\ Answered(1, "pcm_set_params", 0) /\ log[1].code = VIRTIO_SND_S_OK
    /\ Answered(2, "pcm_start", 0) /\ log[2].code = VIRTIO_SND_S_OK
    /\ log[3].handler = "default" /\ log[3].code = VIRTIO_SND_S_BAD_MSG
    /\ Sent(3)
    /\ pcm_params[0].channels = 1
    /\ IsDefaultStream(streams[0], 0)

\* ---------------------------------------------------------- termination
NextDrain == NextOver(PcmMenu, MaxDrainReqs)

\* The drain loop is a sequential loop of one thread, which keeps running:
\* an iteration that can be taken is taken, and so is the exit of the loop.
SpecDrain ==
    Init /\ [][NextDrain]_vars /\ WF_vars(DrainStep) /\ WF_vars(DrainEnd)

\* C39: every drain pass terminates: each iteration of its loop that
\* returns removes exactly one request from the pending queue, and with
\* finitely many requests arriving a pass that has set the in-progress flag
\* reaches the state where the queue is empty and the flag is cleared.
C39_DrainTerminates ==
    /\ [][ lastOp' = "drain_step" /\ Len(log') = Len(log) + 1
           /\ fault' = "none"
           => cmdq' = Tail(cmdq) ]_vars
    /\ processing_cmdq ~> (cmdq = << >> /\ ~processing_cmdq)

\* ---------------------------------------------------------- used length
\* C40: for every delivered response the used length given to the
\* transport is the number of bytes written to the reply buffer: the size
\* of the response header, plus the info records of a successful PCM_INFO;
\* and it never exceeds the space the guest reserved for the reply.
C40_UsedLengthIsBytesWritten ==
    \A i \in 1 .. Len(log) :
      Sent(i)
      => /\ log[i].used = SIZEOF_HDR + log[i].info_bytes
         /\ log[i].used <= log[i].req.in_len

====
